---- MODULE Spec2Model ----
(***************************************************************************)
(* Model of the traffic-stations backend: the hourly-average API handler   *)
(* (paginated range fetch, Helsinki local-hour resolution with its two     *)
(* process-lifetime caches, per-sensor and overall hourly aggregation).    *)
(*                                                                         *)
(* Strings are sequences of one-character strings, so that template        *)
(* formatting, Date parsing, includes() and string comparison are computed *)
(* rather than assumed.  Instants are whole seconds since the epoch (the   *)
(* millisecond part of a Date never reaches an hour computation).  The     *)
(* host time zone of the handlers is UTC, as in the Lambda runtime.        *)
(***************************************************************************)
EXTENDS Integers, Sequences, FiniteSets, TLC

VARIABLES
    hourCache,          \* hourly-average/index.ts:20, timeString -> hour
    dstCache,           \* hourly-average/index.ts:21, dateKey -> boolean
    callArg,            \* argument of a direct getHelsinkiHour call
    callRet,            \* what that call returned (NotCalled before it)
    store,              \* the items of the DynamoDB table
    event,              \* the API Gateway event of the request
    tableName,          \* process.env.DYNAMODB_TABLE_NAME ('' when not set)
    today,              \* the instant new Date() yields in the handler
    pc,                 \* where the hourly-average handler is
    items,              \* handler local, line 133
    lastEvaluatedKey,   \* handler local, line 134
    page,               \* handler local, line 135
    query,              \* the QueryCommand awaiting its answer, if any
    result,             \* the store's answer not yet taken by the handler
    response,           \* what the handler returned, once it has
    groupedByNameAndHour, \* handler local, line 167 (<<>> until it is created)
    queryLog,           \* history: the ExclusiveStartKey of every query sent
    resultLog,          \* history: every answer of the store
    emptyPages,         \* history: empty pages that carried a key
    Records,            \* processor: event.Records of the invocation
    processorPc,        \* processor: where the handler is
    recordIndex,        \* processor: the record the outer loop is at
    valueIndex,         \* processor: the sensor value the inner loops are at
    batchItemFailures,  \* processor: daily-data/index.ts:102
    deliveredRecords,   \* history: records delivered to the processor so far
    writeLog,           \* history: the PutCommands of the invocation
    processedLog,       \* history: every record processed, and the table then
    collectorPc,        \* collector: where the handler is
    queueUrl,           \* collector: process.env.SQS_QUEUE_URL
    tampereStations,    \* collector: what getTampereStations() returned
    stationFetch,       \* collector: the promise of each station's data
    collectorResult,    \* collector: what the handler returned
    sentMessages,       \* the bodies of the messages on the queue
    selectedStation,    \* dashboard: StationSelector's state
    hourlyAverage,      \* dashboard: StationSelector's state
    loading,            \* dashboard: StationSelector's state
    fetchError,         \* dashboard: StationSelector's state `error'
    selectedStationData, \* dashboard: StationSelector's state
    hourlyRequests,     \* dashboard: hourly-average requests in flight
    detailsRequests,    \* dashboard: station details requests in flight
    clicks,             \* history: selections made in the dashboard
    requests            \* concurrent hourly-average requests of one process

cacheVars == <<hourCache, dstCache>>
callVars == <<callArg, callRet>>
envVars == <<store, event, tableName, today>>
handlerVars == <<pc, items, lastEvaluatedKey, page, query, result, response,
                 groupedByNameAndHour>>
historyVars == <<queryLog, resultLog, emptyPages>>
processorVars == <<Records, processorPc, recordIndex, valueIndex,
                   batchItemFailures, deliveredRecords, writeLog, processedLog>>
\* The state of the components other than the hourly-average handler.
collectorVars == <<collectorPc, queueUrl, tampereStations, stationFetch,
                   collectorResult, sentMessages>>
dashboardVars == <<selectedStation, hourlyAverage, loading, fetchError,
                   selectedStationData, hourlyRequests, detailsRequests, clicks>>
requestVars == <<requests>>
componentVars == <<processorVars, collectorVars, dashboardVars, requestVars>>
vars == <<hourCache, dstCache, callArg, callRet, store, event, tableName, today,
          pc, items, lastEvaluatedKey, page, query, result, response,
          groupedByNameAndHour, queryLog, resultLog, emptyPages,
          Records, processorPc, recordIndex, valueIndex, batchItemFailures,
          deliveredRecords, writeLog, processedLog,
          collectorPc, queueUrl, tampereStations, stationFetch,
          collectorResult, sentMessages,
          selectedStation, hourlyAverage, loading, fetchError,
          selectedStationData, hourlyRequests, detailsRequests, clicks,
          requests>>

(***************************************************************************)
(* Bounds of the model.                                                    *)
(***************************************************************************)
FirstYear == 2020
LastYear == 2029
\* Empty pages carrying a key that the store may return during one fetch.
MaxEmptyPages == 1
\* Readings in the table of the aggregation's specification.
MaxItems == 2
\* Records delivered to the processor in all.
MaxRecords == 3
\* Days of flat readings in the table of the flat scenario.
MaxFlatDays == 1
\* Readings in the table of the specification of the means.
MaxReadings == 3

\* Not-a-number (an Invalid Date's time value and every field read from it);
\* real instants, years, months, days and hours are never negative here.
NaN == 0 - 1
\* callRet before the call has been made.
NotCalled == 0 - 2

(***************************************************************************)
(* Characters and strings.                                                 *)
(***************************************************************************)
DigitChars == <<"0", "1", "2", "3", "4", "5", "6", "7", "8", "9">>

IsDigit(c) == \E i \in 1..Len(DigitChars) : DigitChars[i] = c

DigitVal(c) == (CHOOSE i \in 1..Len(DigitChars) : DigitChars[i] = c) - 1

\* String(n) of a non-negative integer: decimal digits, no padding.
RECURSIVE ToDecimal(_)
ToDecimal(n) ==
    IF n < 10 THEN <<DigitChars[n + 1]>>
    ELSE ToDecimal(n \div 10) \o <<DigitChars[(n % 10) + 1]>>

\* Decimal digits padded with zeros on the left to the given width
\* (the fixed-width fields of Date.prototype.toISOString).
RECURSIVE PadDecimal(_, _)
PadDecimal(n, width) ==
    IF width = 0 THEN <<>>
    ELSE PadDecimal(n \div 10, width - 1) \o <<DigitChars[(n % 10) + 1]>>

\* The number a run of decimal digits denotes.
RECURSIVE ParseDecimal(_)
ParseDecimal(s) ==
    IF s = <<>> THEN 0
    ELSE 10 * ParseDecimal(SubSeq(s, 1, Len(s) - 1)) + DigitVal(s[Len(s)])

AllDigits(s) == \A i \in 1..Len(s) : IsDigit(s[i])

\* The characters of the model in code-point order.
AsciiOrder ==
    <<"#", "-", ".", "/", "0", "1", "2", "3", "4", "5", "6", "7", "8", "9", ":",
      "A", "B", "C", "D", "E", "F", "G", "H", "I", "J", "K", "L", "M", "N", "O",
      "P", "Q", "R", "S", "T", "U", "V", "W", "X", "Y", "Z", "_",
      "a", "b", "c", "d", "e", "f", "g", "h", "i", "j", "k", "l", "m", "n", "o",
      "p", "q", "r", "s", "t", "u", "v", "w", "x", "y", "z">>

CharCode(c) == CHOOSE i \in 1..Len(AsciiOrder) : AsciiOrder[i] = c

\* a < b in the store's order of string sort keys (code points, left to right;
\* a proper prefix sorts first).
StringLess(a, b) ==
    \E i \in 1..Len(b) :
        /\ i <= Len(a) + 1
        /\ SubSeq(a, 1, i - 1) = SubSeq(b, 1, i - 1)
        /\ \/ i = Len(a) + 1
           \/ CharCode(a[i]) < CharCode(b[i])

StringLeq(a, b) == a = b \/ StringLess(a, b)

\* parseInt(s, 10): the number of the leading digits, NaN when there are none.
RECURSIVE LeadingDigits(_)
LeadingDigits(s) ==
    IF s = <<>> \/ ~IsDigit(Head(s)) THEN <<>>
    ELSE <<Head(s)>> \o LeadingDigits(Tail(s))

parseInt(s) == IF LeadingDigits(s) = <<>> THEN NaN ELSE ParseDecimal(LeadingDigits(s))

(***************************************************************************)
(* The proleptic Gregorian calendar, as Date computes with it.             *)
(***************************************************************************)
IsLeapYear(y) == (y % 4 = 0 /\ y % 100 # 0) \/ y % 400 = 0

LeapDaysBefore(y) == ((y - 1) \div 4) - ((y - 1) \div 100) + ((y - 1) \div 400)

\* Days from 1970-01-01 to January 1st of year y.
DaysBeforeYear(y) == 365 * (y - 1970) + LeapDaysBefore(y) - LeapDaysBefore(1970)

CumulativeDays == <<0, 31, 59, 90, 120, 151, 181, 212, 243, 273, 304, 334>>

\* Days from January 1st to the first of month (0..11) in year y.
DaysBeforeMonth(y, month) ==
    CumulativeDays[month + 1] + (IF IsLeapYear(y) /\ month >= 2 THEN 1 ELSE 0)

DaysInMonth(y, month) ==
    IF month = 11 THEN 31
    ELSE DaysBeforeMonth(y, month + 1) - DaysBeforeMonth(y, month)

\* MakeDay: the day number of (year, month 0..11, day-of-month); a day past
\* the month's end runs on into the following month, as in Date.
MakeDay(y, month, day) == DaysBeforeYear(y) + DaysBeforeMonth(y, month) + (day - 1)

YearFromDays(n) ==
    LET lo == 1970 + (n \div 366)
    IN  CHOOSE y \in lo..(lo + 1) : DaysBeforeYear(y) <= n /\ n < DaysBeforeYear(y + 1)

MonthFromDays(n) ==
    LET y == YearFromDays(n)
        r == n - DaysBeforeYear(y)
    IN  CHOOSE m \in 0..11 :
            /\ DaysBeforeMonth(y, m) <= r
            /\ r < DaysBeforeMonth(y, m) + DaysInMonth(y, m)

DateFromDays(n) ==
    LET y == YearFromDays(n)
    IN  n - DaysBeforeYear(y) - DaysBeforeMonth(y, MonthFromDays(n)) + 1

\* 1970-01-01 was a Thursday; 0 is Sunday as in Date.prototype.getDay.
WeekDay(n) == (n + 4) % 7

SecondsPerHour == 60 * 60
SecondsPerDay == 24 * SecondsPerHour

(***************************************************************************)
(* Date: an instant in seconds since the epoch, or NaN (Invalid Date).     *)
(***************************************************************************)
\* new Date(year, month, day).getDay(): day of week of a calendar date.
getDay(y, month, day) == WeekDay(MakeDay(y, month, day))

getUTCFullYear(t) == IF t = NaN THEN NaN ELSE YearFromDays(t \div SecondsPerDay)
getUTCMonth(t) == IF t = NaN THEN NaN ELSE MonthFromDays(t \div SecondsPerDay)
getUTCDate(t) == IF t = NaN THEN NaN ELSE DateFromDays(t \div SecondsPerDay)
getUTCHours(t) == IF t = NaN THEN NaN ELSE (t % SecondsPerDay) \div SecondsPerHour

\* The shape YYYY-MM-DD with its fields in range.
IsIsoDate(s) ==
    /\ Len(s) = 10
    /\ AllDigits(SubSeq(s, 1, 4)) /\ s[5] = "-"
    /\ AllDigits(SubSeq(s, 6, 7)) /\ s[8] = "-"
    /\ AllDigits(SubSeq(s, 9, 10))
    /\ ParseDecimal(SubSeq(s, 1, 4)) >= 1970
    /\ ParseDecimal(SubSeq(s, 6, 7)) \in 1..12
    /\ ParseDecimal(SubSeq(s, 9, 10)) \in
           1..DaysInMonth(ParseDecimal(SubSeq(s, 1, 4)), ParseDecimal(SubSeq(s, 6, 7)) - 1)

\* The shape THH:MM:SSZ or THH:MM:SS.sssZ with its fields in range.
IsIsoClock(s) ==
    /\ Len(s) \in {10, 14}
    /\ s[1] = "T"
    /\ AllDigits(SubSeq(s, 2, 3)) /\ s[4] = ":"
    /\ AllDigits(SubSeq(s, 5, 6)) /\ s[7] = ":"
    /\ AllDigits(SubSeq(s, 8, 9))
    /\ IF Len(s) = 10 THEN s[10] = "Z"
       ELSE s[10] = "." /\ AllDigits(SubSeq(s, 11, 13)) /\ s[14] = "Z"
    /\ ParseDecimal(SubSeq(s, 2, 3)) \in 0..23
    /\ ParseDecimal(SubSeq(s, 5, 6)) \in 0..59
    /\ ParseDecimal(SubSeq(s, 8, 9)) \in 0..59

\* The ISO 8601 forms the sensor API and toISOString produce: a date alone
\* (UTC midnight) or a date and a UTC time, with or without milliseconds.
IsIsoInstant(s) ==
    /\ Len(s) \in {10, 20, 24}
    /\ IsIsoDate(SubSeq(s, 1, 10))
    /\ Len(s) > 10 => IsIsoClock(SubSeq(s, 11, Len(s)))

\* new Date(string).getTime(), in seconds; NaN for any other string.
DateParse(s) ==
    IF ~IsIsoInstant(s) THEN NaN
    ELSE MakeDay(ParseDecimal(SubSeq(s, 1, 4)),
                 ParseDecimal(SubSeq(s, 6, 7)) - 1,
                 ParseDecimal(SubSeq(s, 9, 10))) * SecondsPerDay
         + (IF Len(s) = 10 THEN 0
            ELSE ParseDecimal(SubSeq(s, 12, 13)) * SecondsPerHour
                 + ParseDecimal(SubSeq(s, 15, 16)) * 60
                 + ParseDecimal(SubSeq(s, 18, 19)))

\* The milliseconds of new Date(string), which the seconds above leave out.
DateParseMillis(s) == IF Len(s) = 24 THEN ParseDecimal(SubSeq(s, 21, 23)) ELSE 0

\* YYYY-MM-DD of an instant: toISOString().split('T')[0].
IsoDate(t) ==
    PadDecimal(getUTCFullYear(t), 4) \o <<"-">> \o
    PadDecimal(getUTCMonth(t) + 1, 2) \o <<"-">> \o
    PadDecimal(getUTCDate(t), 2)

\* HH:MM:SS of an instant.
IsoClock(t) ==
    PadDecimal(getUTCHours(t), 2) \o <<":">> \o
    PadDecimal((t % SecondsPerHour) \div 60, 2) \o <<":">> \o
    PadDecimal(t % 60, 2)

\* The timestamp format of the sensor API: whole seconds, no fraction.
ApiTimestamp(t) == IsoDate(t) \o <<"T">> \o IsoClock(t) \o <<"Z">>

\* The instant of a UTC calendar date (month 0..11) and hour.
InstantOf(y, month, day, hour) == MakeDay(y, month, day) * SecondsPerDay + hour * SecondsPerHour

\* Date.prototype.toISOString of the instant t seconds and ms milliseconds.
toISOString(t, ms) ==
    IsoDate(t) \o <<"T">> \o IsoClock(t) \o <<".">> \o PadDecimal(ms, 3) \o <<"Z">>

\* Date.prototype.setMonth(month) for month in -1..11, then getTime(): the
\* same day-of-month and time of day in that month of the year (December of
\* the year before for -1).
setMonth(t, month) ==
    MakeDay(IF month < 0 THEN getUTCFullYear(t) - 1 ELSE getUTCFullYear(t),
            IF month < 0 THEN month + 12 ELSE month,
            getUTCDate(t)) * SecondsPerDay
    + (t % SecondsPerDay)

(***************************************************************************)
(* LocalHourResolver: isDSTForDate and getHelsinkiHour with their caches.  *)
(* A cache is a function from the keys it holds to their values.           *)
(***************************************************************************)
EmptyCache == <<>>

HasKey(cache, key) == key \in DOMAIN cache

\* cache[key] = value: the cache with the key set to the value.
Put(cache, key, value) == (key :> value) @@ cache

\* String(x) inside a template literal.
NumberToString(x) == IF x = NaN THEN <<"N", "a", "N">> ELSE ToDecimal(x)

\* dateKey naming the month only.
dateKeyWithoutDay(year, month, day) ==
    NumberToString(year) \o <<"-">> \o NumberToString(month)

\* `${year}-${month}-${day}`
dateKey(year, month, day) ==
    NumberToString(year) \o <<"-">> \o NumberToString(month) \o <<"-">> \o
    NumberToString(day)

\* 31 - ((new Date(year, month, 31).getDay() + 6) % 7)
lastSunday(year, month) == 31 - ((getDay(year, month, 31) + 6) % 7)

\* ComputeDST with the summer months starting one month late.
ComputeDSTSummerFromMay(year, month, day) ==
    IF month > 3 /\ month < 9 THEN TRUE
    ELSE IF month = 2 THEN day >= lastSunday(year, 2)
    ELSE IF month = 9 THEN day < lastSunday(year, 9)
    ELSE FALSE

\* The rule isDSTForDate evaluates when the date is not cached; month is 0..11.
ComputeDST(year, month, day) ==
    IF month > 2 /\ month < 9 THEN TRUE
    ELSE IF month = 2 THEN day >= lastSunday(year, 2)
    ELSE IF month = 9 THEN day < lastSunday(year, 9)
    ELSE FALSE

\* isDSTForDate on the cache dc: the flag it returns and the cache it leaves.
isDSTForDate(dc, year, month, day) ==
    LET key == dateKey(year, month, day)
    IN  IF HasKey(dc, key) THEN [ret |-> dc[key], dstCache |-> dc]
        ELSE [ret |-> ComputeDST(year, month, day),
              dstCache |-> Put(dc, key, ComputeDST(year, month, day))]

\* HelsinkiHourOf adding the offset to the hour instead of to the instant.
HelsinkiHourNoWrap(date, isDST) ==
    LET offsetHours == IF isDST THEN 3 ELSE 2
    IN  IF date = NaN THEN NaN ELSE getUTCHours(date) + offsetHours

\* new Date(date.getTime() + offsetHours * 60 * 60 * 1000).getUTCHours()
HelsinkiHourOf(date, isDST) ==
    LET offsetHours == IF isDST THEN 3 ELSE 2
        helsinkiTime == IF date = NaN THEN NaN ELSE date + offsetHours * SecondsPerHour
    IN  getUTCHours(helsinkiTime)

\* Lines 72-74: the hour is cached and returned.
CacheHour(hc, utcTimeString, hour, dc) ==
    [ret |-> hour, hourCache |-> Put(hc, utcTimeString, hour), dstCache |-> dc]

\* Lines 67-74 with the flag isDSTForDate returned as dst = [ret, dstCache].
HourWithDST(hc, utcTimeString, date, dst) ==
    CacheHour(hc, utcTimeString, HelsinkiHourOf(date, dst.ret), dst.dstCache)

\* Lines 61-74 for the parsed date.
HourOfDate(hc, dc, utcTimeString, date) ==
    HourWithDST(hc, utcTimeString, date,
                isDSTForDate(dc, getUTCFullYear(date), getUTCMonth(date),
                             getUTCDate(date)))

\* getHelsinkiHour on the caches hc and dc: the hour it returns and the caches
\* it leaves.
getHelsinkiHour(hc, dc, utcTimeString) ==
    IF HasKey(hc, utcTimeString)
    THEN [ret |-> hc[utcTimeString], hourCache |-> hc, dstCache |-> dc]
    ELSE HourOfDate(hc, dc, utcTimeString, DateParse(utcTimeString))

(***************************************************************************)
(* Sensor records (SensorValue items as the store returns them).  A string *)
(* field that is missing is the empty string, which the handler treats the *)
(* same way (item.unit || '', item.timeWindowStart || item.measuredTime);  *)
(* a value that is missing is NoValue.  Values are whole numbers; numbers  *)
(* with one decimal (toFixed(1)) are held in tenths.                       *)
(***************************************************************************)
NoValue == 0 - 1

\* JavaScript truthiness of item.value.
Truthy(value) == value # NoValue /\ value # 0

\* item.value || 0
ValueOrZero(value) == IF Truthy(value) THEN value ELSE 0

\* String.prototype.includes
Includes(s, sub) ==
    \E i \in 1..(Len(s) - Len(sub) + 1) : SubSeq(s, i, i + Len(sub) - 1) = sub

OHITUKSET == <<"O", "H", "I", "T", "U", "K", "S", "E", "T">>
KESKINOPEUS == <<"K", "E", "S", "K", "I", "N", "O", "P", "E", "U", "S">>
KplPerH == <<"k", "p", "l", "/", "h">>
KmPerH == <<"k", "m", "/", "h">>

\* ToFixed1 cutting the digits after the first decimal.
ToFixed1Truncating(sum, count) == (10 * sum) \div count

\* Number((sum / count).toFixed(1)), in tenths; count > 0.
ToFixed1(sum, count) == (20 * sum + count) \div (2 * count)

\* MathRound rounding down.
MathFloor(sum, count) == sum \div count

\* Math.round(sum / count); count > 0.
MathRound(sum, count) == (2 * sum + count) \div (2 * count)

Hours == 0..23

(***************************************************************************)
(* HourlyAggregator: the body of the handler after the fetch.              *)
(***************************************************************************)
\* The loops over the items below run on the items lo..hi in order: the
\* first half of the range, then the second half from what the first left.
\* sensorUnitMap, lines 171-176: the first non-empty unit seen for a name.
SetUnit(map, item) ==
    IF HasKey(map, item.name) /\ map[item.name] # <<>> THEN map
    ELSE Put(map, item.name, item.unit)

\* The loop of lines 171-176 over the items in order.
\* The loop of lines 171-176.
RECURSIVE SetUnits(_, _, _, _)
SetUnits(acc, its, lo, hi) ==
    IF lo > hi THEN acc
    ELSE IF lo = hi THEN SetUnit(acc, its[lo])
    ELSE CHOOSE r \in { SetUnits(half, its, (lo + hi) \div 2 + 1, hi) :
                          half \in { SetUnits(acc, its, lo, (lo + hi) \div 2) } } :
             TRUE

sensorUnitMap(its) == SetUnits(EmptyCache, its, 1, Len(its))

\* The keys of groupedByNameAndHour in insertion order (Object.entries).
AddName(names, item) ==
    IF \E i \in 1..Len(names) : names[i] = item.name THEN names
    ELSE Append(names, item.name)

\* The loop of lines 179-186, for the keys it creates.
RECURSIVE AddNames(_, _, _, _)
AddNames(acc, its, lo, hi) ==
    IF lo > hi THEN acc
    ELSE IF lo = hi THEN AddName(acc, its[lo])
    ELSE CHOOSE r \in { AddNames(half, its, (lo + hi) \div 2 + 1, hi) :
                          half \in { AddNames(acc, its, lo, (lo + hi) \div 2) } } :
             TRUE

sensorNames(its) == AddNames(<<>>, its, 1, Len(its))

\* groupedByNameAndHour as initialised by lines 179-186.
EmptyBuckets(its) ==
    [name \in {its[i].name : i \in 1..Len(its)} |->
        [hour \in Hours |-> [sum |-> 0, count |-> 0]]]

\* timeString always taking the measured time.
timeStringMeasured(item) == item.measuredTime

\* item.timeWindowStart || item.measuredTime
timeString(item) ==
    IF item.timeWindowStart # <<>> THEN item.timeWindowStart ELSE item.measuredTime

\* Lines 193-196 for an item whose hour resolved to r = [ret, hourCache,
\* dstCache]; indexing a bucket that does not exist throws.
AccumulateAt(acc, item, r) ==
    IF r.ret \notin Hours
    THEN [acc EXCEPT !.threw = TRUE,
                     !.hourCache = r.hourCache, !.dstCache = r.dstCache]
    ELSE [acc EXCEPT
            !.grouped[item.name][r.ret] = [sum |-> @.sum + item.value,
                                           count |-> @.count + 1],
            !.hourCache = r.hourCache,
            !.dstCache = r.dstCache]

\* AccumulateItem without the skip of line 190.
AccumulateItemWithoutSkip(acc, item) ==
    IF acc.threw THEN acc
    ELSE AccumulateAt(acc, [item EXCEPT !.value = ValueOrZero(@)],
                      getHelsinkiHour(acc.hourCache, acc.dstCache, timeString(item)))

\* One round of the loop of lines 189-198 on acc = [grouped, hourCache,
\* dstCache, threw].
AccumulateItem(acc, item) ==
    IF acc.threw \/ ~Truthy(item.value) THEN acc
    ELSE AccumulateAt(acc, item,
                      getHelsinkiHour(acc.hourCache, acc.dstCache, timeString(item)))

\* The loop of lines 189-198.
RECURSIVE AccumulateItems(_, _, _, _)
AccumulateItems(acc, its, lo, hi) ==
    IF lo > hi THEN acc
    ELSE IF lo = hi THEN AccumulateItem(acc, its[lo])
    ELSE CHOOSE r \in { AccumulateItems(half, its, (lo + hi) \div 2 + 1, hi) :
                          half \in { AccumulateItems(acc, its, lo, (lo + hi) \div 2) } } :
             TRUE

\* SensorHourlyData dividing also when the bucket is empty (0 / 0).
SensorHourlyDataUnguarded(hourData) ==
    [i \in 1..24 |->
        [hour |-> i - 1,
         value |-> IF hourData[i - 1].count > 0
                   THEN ToFixed1(hourData[i - 1].sum, hourData[i - 1].count)
                   ELSE NaN]]

\* hourlyData of one sensor name, lines 211-224.
SensorHourlyData(hourData) ==
    [i \in 1..24 |->
        [hour |-> i - 1,
         value |-> IF hourData[i - 1].count > 0
                   THEN ToFixed1(hourData[i - 1].sum, hourData[i - 1].count)
                   ELSE 0]]

\* hourlyAveragesByName, lines 203-231.
hourlyAveragesByName(its, grouped) ==
    [n \in 1..Len(sensorNames(its)) |->
        [name |-> sensorNames(its)[n],
         unit |-> sensorUnitMap(its)[sensorNames(its)[n]],
         hourlyData |-> SensorHourlyData(grouped[sensorNames(its)[n]])]]

\* IsTrafficCount looking at the name only.
IsTrafficCountByName(item) == Includes(item.name, OHITUKSET)

IsTrafficCount(item) == Includes(item.name, OHITUKSET) /\ item.unit = KplPerH
IsSpeed(item) == Includes(item.name, KESKINOPEUS) /\ item.unit = KmPerH

\* items.filter(...), lines 243-245.
trafficCountSensors(its) == SelectSeq(its, IsTrafficCount)

\* items.filter(...), lines 247-249.
speedSensors(its) == SelectSeq(its, IsSpeed)

\* hourlyAverages as created by lines 235-240.
EmptyHourlyAverages ==
    [hour \in Hours |->
        [trafficCount |-> 0, avgSpeed |-> 0, trafficDataPoints |-> 0, speedDataPoints |-> 0]]

\* Lines 255-257 for an item whose hour resolved to r.
AddTrafficCountAt(acc, item, r) ==
    IF r.ret \notin Hours
    THEN [acc EXCEPT !.threw = TRUE,
                     !.hourCache = r.hourCache, !.dstCache = r.dstCache]
    ELSE [acc EXCEPT
            !.hourlyAverages[r.ret].trafficCount = @ + ValueOrZero(item.value),
            !.hourlyAverages[r.ret].trafficDataPoints = @ + 1,
            !.hourCache = r.hourCache,
            !.dstCache = r.dstCache]

\* One round of the loop of lines 252-258 on acc = [hourlyAverages, hourCache,
\* dstCache, threw].
AddTrafficCount(acc, item) ==
    IF acc.threw THEN acc
    ELSE AddTrafficCountAt(acc, item,
                           getHelsinkiHour(acc.hourCache, acc.dstCache, timeString(item)))

\* AddSpeedAt leaving speedDataPoints as it was.
AddSpeedAtUncounted(acc, item, r) ==
    IF r.ret \notin Hours
    THEN [acc EXCEPT !.threw = TRUE,
                     !.hourCache = r.hourCache, !.dstCache = r.dstCache]
    ELSE [acc EXCEPT
            !.hourlyAverages[r.ret].avgSpeed = @ + ValueOrZero(item.value),
            !.hourCache = r.hourCache,
            !.dstCache = r.dstCache]

\* Lines 269-271 for an item whose hour resolved to r.
AddSpeedAt(acc, item, r) ==
    IF r.ret \notin Hours
    THEN [acc EXCEPT !.threw = TRUE,
                     !.hourCache = r.hourCache, !.dstCache = r.dstCache]
    ELSE [acc EXCEPT
            !.hourlyAverages[r.ret].avgSpeed = @ + ValueOrZero(item.value),
            !.hourlyAverages[r.ret].speedDataPoints = @ + 1,
            !.hourCache = r.hourCache,
            !.dstCache = r.dstCache]

\* One round of the loop of lines 266-279.
AddSpeed(acc, item) ==
    IF acc.threw THEN acc
    ELSE AddSpeedAt(acc, item,
                    getHelsinkiHour(acc.hourCache, acc.dstCache, timeString(item)))

\* The loop of lines 252-258.
RECURSIVE AddTrafficCounts(_, _, _, _)
AddTrafficCounts(acc, its, lo, hi) ==
    IF lo > hi THEN acc
    ELSE IF lo = hi THEN AddTrafficCount(acc, its[lo])
    ELSE CHOOSE r \in { AddTrafficCounts(half, its, (lo + hi) \div 2 + 1, hi) :
                          half \in { AddTrafficCounts(acc, its, lo, (lo + hi) \div 2) } } :
             TRUE

\* The loop of lines 266-279.
RECURSIVE AddSpeeds(_, _, _, _)
AddSpeeds(acc, its, lo, hi) ==
    IF lo > hi THEN acc
    ELSE IF lo = hi THEN AddSpeed(acc, its[lo])
    ELSE CHOOSE r \in { AddSpeeds(half, its, (lo + hi) \div 2 + 1, hi) :
                          half \in { AddSpeeds(acc, its, lo, (lo + hi) \div 2) } } :
             TRUE

\* FinalHourly dividing both sums by the traffic count's data points.
FinalHourlySharedDataPoints(data, hour) ==
    [hour |-> hour,
     trafficCount |-> IF data.trafficDataPoints = 0 THEN 0
                      ELSE MathRound(data.trafficCount, data.trafficDataPoints),
     avgSpeed |-> IF data.trafficDataPoints = 0 THEN 0
                  ELSE ToFixed1(data.avgSpeed, data.trafficDataPoints)]

\* One entry of hourlyData, lines 285-302.
FinalHourly(data, hour) ==
    [hour |-> hour,
     trafficCount |-> IF data.trafficDataPoints = 0 THEN 0
                      ELSE MathRound(data.trafficCount, data.trafficDataPoints),
     avgSpeed |-> IF data.speedDataPoints = 0 THEN 0
                  ELSE ToFixed1(data.avgSpeed, data.speedDataPoints)]

hourlyData(hourlyAverages) ==
    [i \in 1..24 |-> FinalHourly(hourlyAverages[i - 1], i - 1)]

\* InAggregatedSensors keeping every sensor.
InAllSensors(its, sensor) == TRUE

\* filteredHourlyAveragesByName, lines 306-309.
InAggregatedSensors(its, sensor) ==
    \/ \E i \in 1..Len(trafficCountSensors(its)) :
           trafficCountSensors(its)[i].name = sensor.name
    \/ \E i \in 1..Len(speedSensors(its)) : speedSensors(its)[i].name = sensor.name

filteredHourlyAveragesByName(its, byName) ==
    SelectSeq(byName, LAMBDA sensor : InAggregatedSensors(its, sensor))

\* hourlyAverages after the loops of lines 252-258 and 266-279, which start
\* from the caches the per-sensor loop left (and do not run when it threw).
OverallAverages(its, grouped) ==
    AddSpeeds(AddTrafficCounts([hourlyAverages |-> EmptyHourlyAverages,
                                hourCache |-> grouped.hourCache,
                                dstCache |-> grouped.dstCache,
                                threw |-> grouped.threw],
                               trafficCountSensors(its), 1,
                               Len(trafficCountSensors(its))),
              speedSensors(its), 1, Len(speedSensors(its)))

\* The response object of lines 313-321, or the exception.
AggregateResult(its, grouped, overall, stationId, start, end) ==
    [threw |-> overall.threw,
     hourCache |-> overall.hourCache,
     dstCache |-> overall.dstCache,
     grouped |-> grouped.grouped,
     body |-> IF overall.threw THEN <<>>
              ELSE [stationId |-> stationId,
                    period |-> [start |-> start, end |-> end],
                    hourlyAverages |-> hourlyData(overall.hourlyAverages),
                    sensorData |->
                        filteredHourlyAveragesByName(
                            its, hourlyAveragesByName(its, grouped.grouped))]]

\* groupedByNameAndHour after the loop of lines 189-198, with the caches the
\* loop left and whether it threw.
GroupedByNameAndHour(its, hc, dc) ==
    AccumulateItems([grouped |-> EmptyBuckets(its), hourCache |-> hc,
                     dstCache |-> dc, threw |-> FALSE],
                    its, 1, Len(its))

\* Lines 166-327 on the fetched items and the caches hc and dc: whether an
\* exception was thrown, the response body otherwise, and the caches left.
Aggregate(its, hc, dc, stationId, start, end) ==
    AggregateResult(its,
                    GroupedByNameAndHour(its, hc, dc),
                    OverallAverages(its, GroupedByNameAndHour(its, hc, dc)),
                    stationId, start, end)

(***************************************************************************)
(* The table: items as the processor writes them, and the store's answers  *)
(* to a Query with a key condition and an ExclusiveStartKey.               *)
(***************************************************************************)
\* `${sensorValue.stationId}#${sensorValue.measuredTime}#${sensorValue.name}`
compositeKey(sensorValue) ==
    NumberToString(sensorValue.stationId) \o <<"#">> \o sensorValue.measuredTime
    \o <<"#">> \o sensorValue.name

\* { ...sensorValue, compositeKey }
StoredItem(sensorValue) ==
    [stationId |-> sensorValue.stationId,
     name |-> sensorValue.name,
     unit |-> sensorValue.unit,
     value |-> sensorValue.value,
     measuredTime |-> sensorValue.measuredTime,
     timeWindowStart |-> sensorValue.timeWindowStart,
     compositeKey |-> compositeKey(sensorValue)]

\* lastEvaluatedKey = undefined
NoKey == [stationId |-> NaN, compositeKey |-> <<>>]

\* The primary key of an item.
KeyOf(item) == [stationId |-> item.stationId, compositeKey |-> item.compositeKey]

\* stationId = :stationId AND compositeKey BETWEEN :startKey AND :endKey
Matching(table, q) ==
    { it \in table :
        /\ it.stationId = q.stationId
        /\ StringLeq(q.startKey, it.compositeKey)
        /\ StringLeq(it.compositeKey, q.endKey) }

\* Items in ascending order of the sort key, which is unique among the items
\* of one station: an item stands after the items whose keys are less.
SortByKey(S) ==
    LET ranked == { <<Cardinality({ y \in S : StringLess(y.compositeKey,
                                                         x.compositeKey) }) + 1,
                      x>> : x \in S }
    IN  [i \in 1..Cardinality(S) |-> (CHOOSE p \in ranked : p[1] = i)[2]]

\* What the query has still to deliver: the matching items after its
\* ExclusiveStartKey, in key order.
Remaining(table, q) ==
    SortByKey({ it \in Matching(table, q) :
                  \/ q.ExclusiveStartKey = NoKey
                  \/ StringLess(q.ExclusiveStartKey.compositeKey, it.compositeKey) })

\* The key of the last item a page of n items evaluated: its last item, or
\* the key the query started after when the page is empty.
LastEvaluated(remaining, q, n) ==
    IF n > 0 THEN KeyOf(remaining[n]) ELSE q.ExclusiveStartKey

\* The pages the store may answer with when these items remain: any number n
\* of them from the front, with the key of the last evaluated item whenever
\* items remain after them, and with or without it when none does.
PagesOf(remaining, q) ==
    { r \in [Items : { SubSeq(remaining, 1, n) : n \in 0..Len(remaining) },
             LastEvaluatedKey : {NoKey, q.ExclusiveStartKey}
                                \cup { KeyOf(remaining[i]) : i \in 1..Len(remaining) },
             error : {FALSE}] :
        /\ r.LastEvaluatedKey \in {NoKey, LastEvaluated(remaining, q, Len(r.Items))}
        /\ Len(r.Items) < Len(remaining) => r.LastEvaluatedKey # NoKey }

\* The answers the store may give to a query.
QueryResults(table, q) == PagesOf(Remaining(table, q), q)

\* The query was rejected or the call failed: docClient.send throws.
QueryError == [Items |-> <<>>, LastEvaluatedKey |-> NoKey, error |-> TRUE]

(***************************************************************************)
(* The hourly-average handler.                                             *)
(***************************************************************************)
\* startDate, lines 123-127: today minus one month by setMonth.
startDate(now) == IsoDate(setMonth(now, getUTCMonth(now) - 1))

\* endDate, line 128.
endDate(now) == IsoDate(now)

\* `${stationId}#${new Date(startDate).toISOString()}`
startDateKey(stationId, now) ==
    stationId \o <<"#">> \o
    toISOString(DateParse(startDate(now)), DateParseMillis(startDate(now)))

EndOfDay == <<"T", "2", "3", ":", "5", "9", ":", "5", "9", ".", "9", "9", "9", "Z">>

\* `${stationId}#${new Date(endDate + 'T23:59:59.999Z').toISOString()}`
endDateKey(stationId, now) ==
    stationId \o <<"#">> \o
    toISOString(DateParse(endDate(now) \o EndOfDay),
                DateParseMillis(endDate(now) \o EndOfDay))

\* The QueryCommand of lines 143-152.
QueryCommand(ev, now, exclusiveStartKey) ==
    [stationId |-> parseInt(ev.stationId),
     startKey |-> startDateKey(ev.stationId, now),
     endKey |-> endDateKey(ev.stationId, now),
     ExclusiveStartKey |-> exclusiveStartKey]

\* ConcatPage keeping the latest page only.
ConcatPageOverwrite(its, r) == r.Items

\* items.concat(result.Items), line 159.
ConcatPage(its, r) == its \o r.Items

\* LoopContinues leaving the loop after the first page.
LoopNeverContinues(key) == FALSE

\* while (lastEvaluatedKey), line 161.
LoopContinues(key) == key # NoKey

\* The processor before its first invocation.
ProcessorIdle ==
    /\ Records = <<>>
    /\ processorPc = "idle"
    /\ recordIndex = 0
    /\ valueIndex = 0
    /\ batchItemFailures = <<>>
    /\ deliveredRecords = 0
    /\ writeLog = <<>>
    /\ processedLog = <<>>

\* The collector before its invocation, its queue URL not configured.
CollectorIdle ==
    /\ collectorPc = "idle"
    /\ queueUrl = <<>>
    /\ tampereStations = <<>>
    /\ stationFetch = <<>>
    /\ collectorResult = <<>>
    /\ sentMessages = <<>>

\* The dashboard when StationSelector is mounted: lines 102-112.
DashboardIdle ==
    /\ selectedStation = ""
    /\ hourlyAverage = <<>>
    /\ loading = FALSE
    /\ fetchError = <<>>
    /\ selectedStationData = <<>>
    /\ hourlyRequests = {}
    /\ detailsRequests = {}
    /\ clicks = 0

\* No concurrent requests are made of the process.
RequestsIdle == requests = <<>>

ComponentsIdle ==
    ProcessorIdle /\ CollectorIdle /\ DashboardIdle /\ RequestsIdle

Returned(statusCode, body) == <<[statusCode |-> statusCode, body |-> body]>>

\* The catch block, lines 328-339.
InternalError == Returned(500, [message |-> "Failed to get hourly average data"])

\* Invoke looking for the table name before the stationId.
InvokeConfigurationFirst ==
    /\ pc = "start"
    /\ IF event.httpMethod = "OPTIONS" \/ event.stationId = <<>> \/ tableName = <<>>
       THEN /\ response' =
                  IF event.httpMethod = "OPTIONS" THEN Returned(200, <<>>)
                  ELSE IF tableName = <<>> THEN InternalError
                  ELSE Returned(400, [message |-> "Missing stationId parameter"])
            /\ pc' = "done"
            /\ UNCHANGED <<items, lastEvaluatedKey, page, query, queryLog>>
       ELSE /\ items' = <<>>
            /\ lastEvaluatedKey' = NoKey
            /\ page' = 1
            /\ query' = <<QueryCommand(event, today, NoKey)>>
            /\ queryLog' = Append(queryLog, query'[1].ExclusiveStartKey)
            /\ pc' = "await"
            /\ UNCHANGED response
    /\ UNCHANGED <<groupedByNameAndHour, result, resultLog, emptyPages>>
    /\ UNCHANGED <<cacheVars, callVars, envVars, componentVars>>

\* From the invocation to the first await (lines 83-152) or to an early
\* return.
Invoke ==
    /\ pc = "start"
    /\ IF event.httpMethod = "OPTIONS" \/ event.stationId = <<>> \/ tableName = <<>>
       THEN /\ response' =
                  IF event.httpMethod = "OPTIONS" THEN Returned(200, <<>>)
                  ELSE IF event.stationId = <<>>
                  THEN Returned(400, [message |-> "Missing stationId parameter"])
                  ELSE InternalError
            /\ pc' = "done"
            /\ UNCHANGED <<items, lastEvaluatedKey, page, query, queryLog>>
       ELSE /\ items' = <<>>
            /\ lastEvaluatedKey' = NoKey
            /\ page' = 1
            /\ query' = <<QueryCommand(event, today, NoKey)>>
            /\ queryLog' = Append(queryLog, query'[1].ExclusiveStartKey)
            /\ pc' = "await"
            /\ UNCHANGED response
    /\ UNCHANGED <<groupedByNameAndHour, result, resultLog, emptyPages>>
    /\ UNCHANGED <<cacheVars, callVars, envVars, componentVars>>

\* The store answers the query in flight with a page.
StoreAnswers ==
    /\ query # <<>> /\ result = <<>>
    /\ \E r \in QueryResults(store, query[1]) :
        /\ (r.Items = <<>> /\ r.LastEvaluatedKey # NoKey) => emptyPages < MaxEmptyPages
        /\ emptyPages' = IF r.Items = <<>> /\ r.LastEvaluatedKey # NoKey
                         THEN emptyPages + 1 ELSE emptyPages
        /\ result' = <<r>>
        /\ resultLog' = Append(resultLog, r)
    /\ UNCHANGED <<groupedByNameAndHour, pc, items, lastEvaluatedKey, page,
                   query, response, queryLog>>
    /\ UNCHANGED <<cacheVars, callVars, envVars, componentVars>>

\* The store answers the query in flight with all the items it has still to
\* deliver, in one page without a key.
StoreAnswersInFull ==
    /\ query # <<>> /\ result = <<>>
    /\ \E r \in QueryResults(store, query[1]) :
        /\ r.LastEvaluatedKey = NoKey
        /\ result' = <<r>>
        /\ resultLog' = Append(resultLog, r)
    /\ UNCHANGED <<groupedByNameAndHour, pc, items, lastEvaluatedKey, page,
                   query, response, queryLog,
                   emptyPages>>
    /\ UNCHANGED <<cacheVars, callVars, envVars, componentVars>>

\* The store fails the query in flight.
StoreFails ==
    /\ query # <<>> /\ result = <<>>
    /\ result' = <<QueryError>>
    /\ resultLog' = Append(resultLog, QueryError)
    /\ UNCHANGED <<groupedByNameAndHour, pc, items, lastEvaluatedKey, page,
                   query, response, queryLog, emptyPages>>
    /\ UNCHANGED <<cacheVars, callVars, envVars, componentVars>>

\* The handler resumes with a page that carries a LastEvaluatedKey: lines
\* 153-161 and the next round's query, lines 142-152.
ReceivePageAndContinue ==
    /\ pc = "await" /\ result # <<>>
    /\ ~result[1].error
    /\ LoopContinues(result[1].LastEvaluatedKey)
    /\ items' = ConcatPage(items, result[1])
    /\ lastEvaluatedKey' = result[1].LastEvaluatedKey
    /\ page' = page + 1
    /\ query' = <<QueryCommand(event, today, result[1].LastEvaluatedKey)>>
    /\ queryLog' = Append(queryLog, query'[1].ExclusiveStartKey)
    /\ result' = <<>>
    /\ UNCHANGED <<groupedByNameAndHour, pc, response, resultLog, emptyPages>>
    /\ UNCHANGED <<cacheVars, callVars, envVars, componentVars>>

\* The handler resumes with a page that carries no LastEvaluatedKey: lines
\* 153-161, then the aggregation and the return, lines 162-327 (or the catch
\* block when the aggregation throws).
ReceiveLastPage ==
    /\ pc = "await" /\ result # <<>>
    /\ ~result[1].error
    /\ ~LoopContinues(result[1].LastEvaluatedKey)
    /\ items' = ConcatPage(items, result[1])
    /\ lastEvaluatedKey' = result[1].LastEvaluatedKey
    /\ \E a \in {Aggregate(ConcatPage(items, result[1]), hourCache, dstCache,
                           event.stationId, startDate(today), endDate(today))} :
           /\ response' = IF a.threw THEN InternalError ELSE Returned(200, a.body)
           /\ groupedByNameAndHour' = a.grouped
           /\ hourCache' = a.hourCache
           /\ dstCache' = a.dstCache
    /\ query' = <<>>
    /\ result' = <<>>
    /\ pc' = "done"
    /\ UNCHANGED <<page, queryLog, resultLog, emptyPages>>
    /\ UNCHANGED <<callVars, envVars, componentVars>>

\* CatchQueryError answering with the aggregate of the pages fetched so far.
CatchQueryErrorWithPartialResult ==
    /\ pc = "await" /\ result # <<>>
    /\ result[1].error
    /\ \E a \in {Aggregate(items, hourCache, dstCache, event.stationId,
                           startDate(today), endDate(today))} :
           /\ response' = Returned(200, a.body)
           /\ hourCache' = a.hourCache
           /\ dstCache' = a.dstCache
    /\ query' = <<>>
    /\ result' = <<>>
    /\ pc' = "done"
    /\ UNCHANGED <<groupedByNameAndHour, items, lastEvaluatedKey, page,
                   queryLog, resultLog, emptyPages>>
    /\ UNCHANGED <<callVars, envVars, componentVars>>

\* The awaited send throws: the catch block, lines 328-339.
CatchQueryError ==
    /\ pc = "await" /\ result # <<>>
    /\ result[1].error
    /\ response' = InternalError
    /\ query' = <<>>
    /\ result' = <<>>
    /\ pc' = "done"
    /\ UNCHANGED <<groupedByNameAndHour, items, lastEvaluatedKey, page,
                   queryLog, resultLog, emptyPages>>
    /\ UNCHANGED <<cacheVars, callVars, envVars, componentVars>>

(***************************************************************************)
(* SpecFetch: one request against every table that holds a subset of       *)
(* FetchUniverse, with every paging the store may choose and a failure     *)
(* possible at every query.                                                *)
(***************************************************************************)
OHITUKSET_60MIN == OHITUKSET \o <<"_", "6", "0", "M", "I", "N">>
KESKINOPEUS_60MIN == KESKINOPEUS \o <<"_", "6", "0", "M", "I", "N">>

SensorValue(stationId, name, unit, value, measuredTime, timeWindowStart) ==
    [stationId |-> stationId, name |-> name, unit |-> unit, value |-> value,
     measuredTime |-> measuredTime, timeWindowStart |-> timeWindowStart]

\* The request is made on 2024-06-15: the window is 2024-05-15..2024-06-15.
FetchToday == InstantOf(2024, 5, 15, 12)

\* Readings of station 23 before the window, in its first second, inside it
\* (two sensors with one timestamp, one of them reading zero), in its
\* last second and after it, and a reading of station 24 inside it.
FetchUniverse ==
    { StoredItem(SensorValue(23, OHITUKSET_60MIN, KplPerH, 6,
                             ApiTimestamp(InstantOf(2024, 4, 14, 23)), <<>>)),
      StoredItem(SensorValue(23, OHITUKSET_60MIN, KplPerH, 3,
                             ApiTimestamp(InstantOf(2024, 4, 15, 0)), <<>>)),
      StoredItem(SensorValue(23, OHITUKSET_60MIN, KplPerH, 0,
                             ApiTimestamp(InstantOf(2024, 5, 1, 10)), <<>>)),
      StoredItem(SensorValue(23, KESKINOPEUS_60MIN, KmPerH, 60,
                             ApiTimestamp(InstantOf(2024, 5, 1, 10)), <<>>)),
      StoredItem(SensorValue(23, OHITUKSET_60MIN, KplPerH, 4,
                             ApiTimestamp(InstantOf(2024, 5, 15, 23) + 3599), <<>>)),
      StoredItem(SensorValue(23, OHITUKSET_60MIN, KplPerH, 7,
                             ApiTimestamp(InstantOf(2024, 5, 16, 0)), <<>>)),
      StoredItem(SensorValue(24, OHITUKSET_60MIN, KplPerH, 8,
                             ApiTimestamp(InstantOf(2024, 5, 1, 10)), <<>>)) }

Station23 == <<"2", "3">>

FetchEvents ==
    { [httpMethod |-> "GET", stationId |-> Station23],
      [httpMethod |-> "GET", stationId |-> <<>>],
      [httpMethod |-> "OPTIONS", stationId |-> Station23] }

TableNames == { <<>>, <<"T", "a", "b", "l", "e">> }

InitFetch ==
    /\ store \in SUBSET FetchUniverse
    /\ event \in FetchEvents
    /\ tableName \in TableNames
    /\ today = FetchToday
    /\ pc = "start"
    /\ items = <<>>
    /\ groupedByNameAndHour = <<>>
    /\ lastEvaluatedKey = NoKey
    /\ page = 0
    /\ query = <<>>
    /\ result = <<>>
    /\ response = <<>>
    /\ queryLog = <<>>
    /\ resultLog = <<>>
    /\ emptyPages = 0
    /\ hourCache = EmptyCache
    /\ dstCache = EmptyCache
    /\ callArg = <<>>
    /\ callRet = NotCalled
    /\ ComponentsIdle

NextFetch ==
    \/ Invoke
    \/ StoreAnswers
    \/ StoreFails
    \/ ReceivePageAndContinue
    \/ ReceiveLastPage
    \/ CatchQueryError

SpecFetch == InitFetch /\ [][NextFetch]_vars

\* The handler has returned the aggregate of a completed fetch.
FetchCompleted == pc = "done" /\ response[1].statusCode = 200 /\ queryLog # <<>>

\* C1: whatever pages the store cut the answer into, the list the handler
\* aggregates holds exactly the items of the station whose compositeKey lies
\* in [startKey, endKey], each once, in ascending key order.
C1_FetchedExactlyTheRange ==
    FetchCompleted =>
        /\ \A it \in store :
               (/\ it.stationId = parseInt(event.stationId)
                /\ StringLeq(startDateKey(event.stationId, today), it.compositeKey)
                /\ StringLeq(it.compositeKey, endDateKey(event.stationId, today)))
               <=> \E i \in 1..Len(items) : items[i] = it
        /\ \A i \in 1..Len(items) : items[i] \in store
        /\ \A i, j \in 1..Len(items) :
               i < j => StringLess(items[i].compositeKey, items[j].compositeKey)

\* Three items fetched in pages of one item, with an empty page that carried
\* a key among them.
C1_Witness ==
    /\ FetchCompleted
    /\ Len(items) = 3
    /\ Len(resultLog) >= 4
    /\ emptyPages = 1
    /\ \A i \in 1..Len(resultLog) : Len(resultLog[i].Items) <= 1

\* The items of the first n responses, in the order the responses came.
RECURSIVE PagesInOrder(_, _)
PagesInOrder(log, n) ==
    IF n = 0 THEN <<>> ELSE PagesInOrder(log, n - 1) \o log[n].Items

QueryInFlight == query # <<>> /\ result = <<>>
ResponsePending == result # <<>>
TokenlessResponsePending ==
    ResponsePending /\ ~result[1].error /\ result[1].LastEvaluatedKey = NoKey

C2_OneQueryAtATime ==
    /\ Len(queryLog) = Len(resultLog) + (IF QueryInFlight THEN 1 ELSE 0)
    /\ queryLog # <<>> => queryLog[1] = NoKey
    /\ \A i \in 2..Len(queryLog) :
           /\ ~resultLog[i - 1].error
           /\ resultLog[i - 1].LastEvaluatedKey # NoKey
           /\ queryLog[i] = resultLog[i - 1].LastEvaluatedKey
    /\ (pc = "done" /\ resultLog # <<>>) =>
           \/ resultLog[Len(resultLog)].error
           \/ resultLog[Len(resultLog)].LastEvaluatedKey = NoKey
    /\ items = PagesInOrder(resultLog,
                            Len(resultLog) - (IF ResponsePending THEN 1 ELSE 0))
    /\ ResponsePending => pc = "await"

\* C2: a query is issued only when every earlier one has been answered; the
\* first carries no ExclusiveStartKey and each later one the LastEvaluatedKey
\* of the response just before it; the handler leaves the loop only at a
\* response without a key (or at a failure); the items are the pages in the
\* order they came; and the handler, which is waiting for every response, ends
\* the request in the step it takes on a response without a key.
C2_SequentialPaging ==
    /\ []C2_OneQueryAtATime
    /\ [][TokenlessResponsePending => pc' = "done"]_vars

\* Three queries were answered, the first two with a key, and the request
\* ended with the three pages in order.
C2_Witness ==
    /\ FetchCompleted
    /\ Len(queryLog) = 3
    /\ queryLog[2] # NoKey /\ queryLog[3] # NoKey /\ queryLog[2] # queryLog[3]
    /\ \A i \in 1..3 : Len(resultLog[i].Items) = 1
    /\ Len(items) = 3

\* C3: once a query has failed no other query is issued, and the response is
\* the internal error (status 500) without an aggregate of the pages fetched
\* before the failure.
C3_FailureAbortsTheRequest ==
    \A i \in 1..Len(resultLog) :
        resultLog[i].error =>
            /\ i = Len(resultLog)
            /\ Len(queryLog) = i
            /\ ~QueryInFlight
            /\ IF pc = "done"
               THEN /\ response = InternalError
                    /\ response[1].statusCode = 500
                    /\ "hourlyAverages" \notin DOMAIN response[1].body
                    /\ "sensorData" \notin DOMAIN response[1].body
               ELSE response = <<>> /\ result = <<QueryError>>

\* The third query failed after two pages had been fetched.
C3_Witness ==
    /\ pc = "done"
    /\ Len(resultLog) = 3
    /\ resultLog[3].error
    /\ Len(items) = 2
    /\ response[1].statusCode = 500

\* The records of the table that the request asks for.
RequestedRecords ==
    { it \in store :
        /\ it.stationId = parseInt(event.stationId)
        /\ StringLeq(startDateKey(event.stationId, today), it.compositeKey)
        /\ StringLeq(it.compositeKey, endDateKey(event.stationId, today)) }

RECURSIVE CountsUpTo(_, _)
CountsUpTo(buckets, hour) ==
    IF hour < 0 THEN 0 ELSE CountsUpTo(buckets, hour - 1) + buckets[hour].count

\* The sum of the counts of the 24 buckets of a sensor name.
BucketCounts(name) == CountsUpTo(groupedByNameAndHour[name], 23)

\* C14: whatever pages the store delivered the records in, the handler has
\* buckets for exactly the sensor names of the requested records, and the
\* counts of the 24 buckets of a name sum to the number of requested records
\* of that name whose value is present and not zero.
C14_BucketCountsSumToRecords ==
    FetchCompleted =>
        /\ DOMAIN groupedByNameAndHour = { it.name : it \in RequestedRecords }
        /\ \A name \in DOMAIN groupedByNameAndHour :
               /\ DOMAIN groupedByNameAndHour[name] = Hours
               /\ BucketCounts(name) =
                      Cardinality({ it \in RequestedRecords :
                                      it.name = name /\ Truthy(it.value) })

\* Three records of two sensors came one to a page; the traffic-count
\* sensor has two records, one of them with value zero, and one bucket count.
C14_Witness ==
    /\ FetchCompleted
    /\ Len(items) = 3
    /\ \A i \in 1..Len(resultLog) : Len(resultLog[i].Items) <= 1
    /\ Cardinality({ it \in RequestedRecords : it.name = OHITUKSET_60MIN }) = 2
    /\ BucketCounts(OHITUKSET_60MIN) = 1
    /\ BucketCounts(KESKINOPEUS_60MIN) = 1

\* C20: a read request (any request but the OPTIONS preflight) without a
\* stationId is answered with status 400 and the message 'Missing stationId
\* parameter', also when the table name is not configured; one with a
\* stationId and no configured table name is answered with status 500; in
\* neither case is a query ever issued.
C20_ValidationBeforeConfiguration ==
    event.httpMethod # "OPTIONS" =>
        /\ (event.stationId = <<>> \/ tableName = <<>>) =>
               queryLog = <<>> /\ query = <<>>
        /\ (pc = "done" /\ event.stationId = <<>>) =>
               /\ response[1].statusCode = 400
               /\ response[1].body.message = "Missing stationId parameter"
        /\ (pc = "done" /\ event.stationId # <<>> /\ tableName = <<>>) =>
               response[1].statusCode = 500

\* A request without a stationId, made while the table name is not
\* configured, was answered with status 400.
C20_Witness ==
    /\ pc = "done"
    /\ event.httpMethod = "GET"
    /\ event.stationId = <<>>
    /\ tableName = <<>>
    /\ response[1].statusCode = 400
    /\ queryLog = <<>>

(***************************************************************************)
(* SpecAgg: one request against every table of at most MaxItems readings   *)
(* of one station, taken from AggUniverse, fetched and aggregated.         *)
(***************************************************************************)
AggNames == {OHITUKSET_60MIN, KESKINOPEUS_60MIN}
AggUnit(name) == IF name = OHITUKSET_60MIN THEN KplPerH ELSE KmPerH
\* A missing value, a zero, and two values whose mean is not a whole number.
AggValues == {NoValue, 0, 3, 6}

\* Two readings of one hour (the second carries the start of its time
\* window) and a reading of the next hour; local hours 13 and 14.
AggTimes ==
    { [measuredTime |-> ApiTimestamp(InstantOf(2024, 5, 1, 10)),
       timeWindowStart |-> <<>>],
      [measuredTime |-> ApiTimestamp(InstantOf(2024, 5, 1, 10) + 1800),
       timeWindowStart |-> ApiTimestamp(InstantOf(2024, 5, 1, 10))],
      [measuredTime |-> ApiTimestamp(InstantOf(2024, 5, 1, 11)),
       timeWindowStart |-> <<>>] }

AggUniverse ==
    { StoredItem(SensorValue(23, name, AggUnit(name), value,
                             t.measuredTime, t.timeWindowStart)) :
        name \in AggNames, value \in AggValues, t \in AggTimes }

\* The sets of at most n readings.
RECURSIVE ReadingsUpTo(_)
ReadingsUpTo(n) ==
    IF n = 0 THEN {{}}
    ELSE ReadingsUpTo(n - 1) \cup
         { table \cup {it} : table \in ReadingsUpTo(n - 1), it \in AggUniverse }

\* Tables: the primary key (stationId, compositeKey) is unique.
AggTables ==
    { table \in ReadingsUpTo(MaxItems) :
        \A a, b \in table : a.compositeKey = b.compositeKey => a = b }

InitAgg ==
    /\ store \in AggTables
    /\ event = [httpMethod |-> "GET", stationId |-> Station23]
    /\ tableName = <<"T", "a", "b", "l", "e">>
    /\ today = FetchToday
    /\ pc = "start"
    /\ items = <<>>
    /\ groupedByNameAndHour = <<>>
    /\ lastEvaluatedKey = NoKey
    /\ page = 0
    /\ query = <<>>
    /\ result = <<>>
    /\ response = <<>>
    /\ queryLog = <<>>
    /\ resultLog = <<>>
    /\ emptyPages = 0
    /\ hourCache = EmptyCache
    /\ dstCache = EmptyCache
    /\ callArg = <<>>
    /\ callRet = NotCalled
    /\ ComponentsIdle

NextAgg ==
    \/ Invoke
    \/ StoreAnswersInFull
    \/ ReceiveLastPage

SpecAgg == InitAgg /\ [][NextAgg]_vars

Aggregated == pc = "done" /\ response # <<>> /\ response[1].statusCode = 200

\* The hour of the day a record falls in.
LocalHourOf(item) == getHelsinkiHour(EmptyCache, EmptyCache, timeString(item)).ret

Fetched == { items[i] : i \in 1..Len(items) }
TrafficCountRecords(hour) ==
    { it \in Fetched : IsTrafficCount(it) /\ LocalHourOf(it) = hour }
SpeedRecords(hour) ==
    { it \in Fetched : IsSpeed(it) /\ LocalHourOf(it) = hour }
SensorRecords(name, hour) ==
    { it \in Fetched : it.name = name /\ LocalHourOf(it) = hour }
Contributing(records) == { it \in records : Truthy(it.value) }

RECURSIVE SumOfValues(_)
SumOfValues(records) ==
    IF records = {} THEN 0
    ELSE SumOfValues(records \ {CHOOSE it \in records : TRUE})
         + ValueOrZero((CHOOSE it \in records : TRUE).value)

\* Mean of the values rounded to a whole number, 0 for no records.
RoundedMean(records) ==
    IF records = {} THEN 0 ELSE MathRound(SumOfValues(records), Cardinality(records))

\* Mean of the values in tenths, 0 for no records.
MeanInTenths(records) ==
    IF records = {} THEN 0 ELSE ToFixed1(SumOfValues(records), Cardinality(records))

ReportedOverall(hour) == response[1].body.hourlyAverages[hour + 1]
ReportedSensors == response[1].body.sensorData

\* The overall entry of an hour is the rounded mean of the traffic records
\* and the mean of the speed records given.
OverallIsMeanOf(hour, traffic, speed) ==
    /\ ReportedOverall(hour).trafficCount = RoundedMean(traffic)
    /\ ReportedOverall(hour).avgSpeed = MeanInTenths(speed)

\* C9: the averages reported are those of the records with a non-zero value:
\* a record whose value is missing or zero changes neither the sum nor the
\* count behind its sensor's hourly value, nor those behind the overall
\* traffic count and the overall average speed of its hour.
C9_ZeroOrMissingContributesNothing ==
    Aggregated =>
        \A hour \in Hours :
            /\ OverallIsMeanOf(hour, Contributing(TrafficCountRecords(hour)),
                               Contributing(SpeedRecords(hour)))
            /\ \A n \in 1..Len(ReportedSensors) :
                   ReportedSensors[n].hourlyData[hour + 1].value =
                       MeanInTenths(Contributing(
                           SensorRecords(ReportedSensors[n].name, hour)))

\* Each category's mean is over its own records: with speed records alone
\* the average speed is not 0, with traffic records alone it is 0.
OwnDataPoints(hour, traffic, speed) ==
    (\A it \in traffic \cup speed : Truthy(it.value)) =>
        /\ OverallIsMeanOf(hour, traffic, speed)
        /\ (speed # {} /\ traffic = {}) => ReportedOverall(hour).avgSpeed > 0
        /\ (speed = {} /\ traffic # {}) => ReportedOverall(hour).avgSpeed = 0

HoursInOrder(entries) ==
    /\ DOMAIN entries = 1..24
    /\ \A i \in 1..24 : entries[i].hour = i - 1

\* C11: in a successful response hourlyAverages and every sensorData series
\* have 24 entries with hour = 0..23 in order; every value is present and a
\* number (never NaN, the outcome of a division by zero); and an hour without
\* a record of non-zero value reports exactly 0.
C11_TwentyFourDefinedEntries ==
    Aggregated =>
        /\ HoursInOrder(response[1].body.hourlyAverages)
        /\ \A hour \in Hours :
               /\ DOMAIN ReportedOverall(hour) = {"hour", "trafficCount", "avgSpeed"}
               /\ ReportedOverall(hour).trafficCount \in Nat
               /\ ReportedOverall(hour).avgSpeed \in Nat
               /\ Contributing(TrafficCountRecords(hour)) = {} =>
                      ReportedOverall(hour).trafficCount = 0
               /\ Contributing(SpeedRecords(hour)) = {} =>
                      ReportedOverall(hour).avgSpeed = 0
        /\ \A n \in 1..Len(ReportedSensors) :
               /\ HoursInOrder(ReportedSensors[n].hourlyData)
               /\ \A hour \in Hours :
                      /\ DOMAIN ReportedSensors[n].hourlyData[hour + 1] =
                             {"hour", "value"}
                      /\ ReportedSensors[n].hourlyData[hour + 1].value \in Nat
                      /\ Contributing(SensorRecords(ReportedSensors[n].name, hour)) = {}
                             => ReportedSensors[n].hourlyData[hour + 1].value = 0

\* Two series: one of a sensor whose only record has no non-zero value, flat
\* at 0, and one with a value in one hour.
C11_Witness ==
    /\ Aggregated
    /\ Len(ReportedSensors) = 2
    /\ \E it \in Fetched : ~Truthy(it.value)
    /\ \E n \in 1..2 : \A hour \in Hours :
           ReportedSensors[n].hourlyData[hour + 1].value = 0
    /\ \E n \in 1..2 : \E hour \in Hours :
           ReportedSensors[n].hourlyData[hour + 1].value > 0

(***************************************************************************)
(* SpecMean: one request against every table of at most MaxReadings        *)
(* readings that all fall in one hour, so that means of two and of three   *)
(* values are reported.                                                    *)
(***************************************************************************)
\* A zero and two values whose means of three have more than one decimal.
MeanValues == {0, 10, 20}

\* Three readings of one hour (local hour 13).
MeanTimes ==
    { ApiTimestamp(InstantOf(2024, 5, 1, 10) + minute * 60) : minute \in {0, 20, 40} }

MeanUniverse ==
    { StoredItem(SensorValue(23, name, AggUnit(name), value, t, <<>>)) :
        name \in AggNames, value \in MeanValues, t \in MeanTimes }

RECURSIVE MeanReadingsUpTo(_)
MeanReadingsUpTo(n) ==
    IF n = 0 THEN {{}}
    ELSE MeanReadingsUpTo(n - 1) \cup
         { table \cup {it} : table \in MeanReadingsUpTo(n - 1), it \in MeanUniverse }

MeanTables ==
    { table \in MeanReadingsUpTo(MaxReadings) :
        \A a, b \in table : a.compositeKey = b.compositeKey => a = b }

InitMean ==
    /\ store \in MeanTables
    /\ event = [httpMethod |-> "GET", stationId |-> Station23]
    /\ tableName = <<"T", "a", "b", "l", "e">>
    /\ today = FetchToday
    /\ pc = "start"
    /\ items = <<>>
    /\ groupedByNameAndHour = <<>>
    /\ lastEvaluatedKey = NoKey
    /\ page = 0
    /\ query = <<>>
    /\ result = <<>>
    /\ response = <<>>
    /\ queryLog = <<>>
    /\ resultLog = <<>>
    /\ emptyPages = 0
    /\ hourCache = EmptyCache
    /\ dstCache = EmptyCache
    /\ callArg = <<>>
    /\ callRet = NotCalled
    /\ ComponentsIdle

NextMean ==
    \/ Invoke
    \/ StoreAnswersInFull
    \/ ReceiveLastPage

SpecMean == InitMean /\ [][NextMean]_vars

\* tenths is sum / count in tenths, rounded to the nearest tenth (a half
\* rounds up).
IsNearestTenth(tenths, sum, count) ==
    /\ 2 * count * tenths - count <= 20 * sum
    /\ 20 * sum < 2 * count * tenths + count

\* n is sum / count rounded to the nearest integer (a half rounds up).
IsNearestInteger(n, sum, count) ==
    /\ 2 * count * n - count <= 2 * sum
    /\ 2 * sum < 2 * count * n + count

SensorValueIsMeanOf(series, hour, records) ==
    records # {} =>
        IsNearestTenth(series.hourlyData[hour + 1].value,
                       SumOfValues(records), Cardinality(records))

\* C12: for every sensor name and hour with records of non-zero value, the
\* value reported for the sensor is the sum of those records' values divided
\* by their number, rounded to one decimal place.
C12_SensorMeanToOneDecimal ==
    Aggregated =>
        \A n \in 1..Len(ReportedSensors) : \A hour \in Hours :
            SensorValueIsMeanOf(ReportedSensors[n], hour,
                Contributing(SensorRecords(ReportedSensors[n].name, hour)))

\* A sensor with 10, 10 and 20 in one hour reports 13.3.
C12_Witness ==
    /\ Aggregated
    /\ Len(ReportedSensors) = 1
    /\ Cardinality(Contributing(Fetched)) = 3
    /\ ReportedSensors[1].hourlyData[14].value = 133

OverallIsRoundedMeanOf(hour, traffic, speed) ==
    /\ traffic # {} =>
           IsNearestInteger(ReportedOverall(hour).trafficCount,
                            SumOfValues(traffic), Cardinality(traffic))
    /\ speed # {} =>
           IsNearestTenth(ReportedOverall(hour).avgSpeed,
                          SumOfValues(speed), Cardinality(speed))

\* C13: for every hour with traffic-count data points the overall
\* trafficCount is their sum divided by their number, rounded to the nearest
\* integer, and for every hour with speed data points avgSpeed is their sum
\* divided by their number, rounded to one decimal place (the data points
\* being the records the handler counts for the hour).
C13_OverallMeansRounded ==
    Aggregated =>
        \A hour \in Hours :
            OverallIsRoundedMeanOf(hour, TrafficCountRecords(hour), SpeedRecords(hour))

\* Traffic counts 10, 20 and 20 in one hour report 17.
C13_Witness ==
    /\ Aggregated
    /\ Cardinality(TrafficCountRecords(13)) = 3
    /\ ReportedOverall(13).trafficCount = 17

(***************************************************************************)
(* SpecClassify: one request against every table of at most MaxItems       *)
(* readings whose names and units do and do not match the two categories.  *)
(***************************************************************************)
\* Names that hold OHITUKSET at the start and further on, KESKINOPEUS, and
\* the lower-case spelling.
ClassifyNames ==
    { OHITUKSET_60MIN,
      KESKINOPEUS_60MIN,
      <<"6", "0", "M", "I", "N", "_">> \o OHITUKSET,
      <<"o", "h", "i", "t", "u", "k", "s", "e", "t", "_", "6", "0", "M", "I", "N">> }

\* The two units, a missing unit, and the upper-case spelling.
ClassifyUnits == { KplPerH, KmPerH, <<>>, <<"K", "P", "L", "/", "H">> }

\* A reading without a time window (local hour 13) and a later reading that
\* carries the start of its window: measured in local hour 14, window
\* started in local hour 13.
ClassifyTimes ==
    { [measuredTime |-> ApiTimestamp(InstantOf(2024, 5, 1, 10)),
       timeWindowStart |-> <<>>],
      [measuredTime |-> ApiTimestamp(InstantOf(2024, 5, 1, 11)),
       timeWindowStart |-> ApiTimestamp(InstantOf(2024, 5, 1, 10))] }

ClassifyUniverse ==
    { StoredItem(SensorValue(23, name, unit, 6, t.measuredTime, t.timeWindowStart)) :
        name \in ClassifyNames, unit \in ClassifyUnits, t \in ClassifyTimes }

RECURSIVE ClassifyReadingsUpTo(_)
ClassifyReadingsUpTo(n) ==
    IF n = 0 THEN {{}}
    ELSE ClassifyReadingsUpTo(n - 1) \cup
         { table \cup {it} : table \in ClassifyReadingsUpTo(n - 1),
                             it \in ClassifyUniverse }

ClassifyTables ==
    { table \in ClassifyReadingsUpTo(MaxItems) :
        \A a, b \in table : a.compositeKey = b.compositeKey => a = b }

InitClassify ==
    /\ store \in ClassifyTables
    /\ event = [httpMethod |-> "GET", stationId |-> Station23]
    /\ tableName = <<"T", "a", "b", "l", "e">>
    /\ today = FetchToday
    /\ pc = "start"
    /\ items = <<>>
    /\ groupedByNameAndHour = <<>>
    /\ lastEvaluatedKey = NoKey
    /\ page = 0
    /\ query = <<>>
    /\ result = <<>>
    /\ response = <<>>
    /\ queryLog = <<>>
    /\ resultLog = <<>>
    /\ emptyPages = 0
    /\ hourCache = EmptyCache
    /\ dstCache = EmptyCache
    /\ callArg = <<>>
    /\ callRet = NotCalled
    /\ ComponentsIdle

NextClassify ==
    \/ Invoke
    \/ StoreAnswersInFull
    \/ ReceiveLastPage

SpecClassify == InitClassify /\ [][NextClassify]_vars

\* The category of a record of ClassifyUniverse, read off its name and unit:
\* of its names all but the lower-case one hold 'OHITUKSET' or 'KESKINOPEUS'.
HoldsOHITUKSET(name) ==
    name \in {OHITUKSET_60MIN, <<"6", "0", "M", "I", "N", "_">> \o OHITUKSET}
HoldsKESKINOPEUS(name) == name = KESKINOPEUS_60MIN

Category(it) ==
    IF HoldsOHITUKSET(it.name) /\ it.unit = KplPerH THEN "TrafficCount"
    ELSE IF HoldsKESKINOPEUS(it.name) /\ it.unit = KmPerH THEN "AverageSpeed"
    ELSE "Other"

ReportedNames == { ReportedSensors[n].name : n \in 1..Len(ReportedSensors) }

\* C15: sensorData has one series for each sensor name that has a fetched
\* record of category TrafficCount or AverageSpeed, and no other series: a
\* name whose records are all of category Other has none.
C15_SeriesForClassifiedNames ==
    Aggregated =>
        /\ ReportedNames = { it.name : it \in { x \in Fetched : Category(x) # "Other" } }
        /\ \A m, n \in 1..Len(ReportedSensors) :
               ReportedSensors[m].name = ReportedSensors[n].name => m = n

\* Two names were fetched; the one whose record has the upper-case unit has
\* no series, the other has one.
C15_Witness ==
    /\ Aggregated
    /\ Cardinality({ it.name : it \in Fetched }) = 2
    /\ \E it \in Fetched : HoldsOHITUKSET(it.name) /\ Category(it) = "Other"
    /\ Cardinality(ReportedNames) = 1

RecordsOf(category, hour) ==
    { it \in Fetched : Category(it) = category /\ LocalHourOf(it) = hour }

\* C16: a record feeds the overall traffic count exactly when its name holds
\* 'OHITUKSET' and its unit is 'kpl/h', and the overall speed exactly when
\* its name holds 'KESKINOPEUS' and its unit is 'km/h'; every record having
\* the value 6, an hour's trafficCount is 6 when it has a record of the first
\* kind and 0 otherwise, and its avgSpeed 6.0 when it has one of the second
\* kind and 0 otherwise.
C16_ClassifiedByNameAndUnit ==
    Aggregated =>
        \A hour \in Hours :
            /\ ReportedOverall(hour).trafficCount =
                   (IF RecordsOf("TrafficCount", hour) # {} THEN 6 ELSE 0)
            /\ ReportedOverall(hour).avgSpeed =
                   (IF RecordsOf("AverageSpeed", hour) # {} THEN 60 ELSE 0)

\* A record whose name holds OHITUKSET after its start feeds the traffic
\* count; a record with the lower-case name and the unit kpl/h feeds nothing.
C16_Witness ==
    /\ Aggregated
    /\ \E it \in Fetched :
           /\ it.name = <<"6", "0", "M", "I", "N", "_">> \o OHITUKSET
           /\ it.unit = KplPerH
    /\ \E it \in Fetched :
           /\ ~HoldsOHITUKSET(it.name) /\ ~HoldsKESKINOPEUS(it.name)
           /\ it.unit = KplPerH
    /\ Cardinality(RecordsOf("TrafficCount", 13)) = 1
    /\ ReportedOverall(13).trafficCount = 6
    /\ ReportedOverall(13).avgSpeed = 0

\* The first fetched record that bears the name.
FirstRecordOf(name) ==
    items[CHOOSE i \in 1..Len(items) :
              /\ items[i].name = name
              /\ \A j \in 1..(i - 1) : items[j].name # name]

\* C17: the unit reported for a sensor name is the unit of the first fetched
\* record bearing the name, also when that unit is empty or missing and a
\* later record of the name has a unit.
C17_UnitOfFirstRecord ==
    Aggregated =>
        \A n \in 1..Len(ReportedSensors) :
            ReportedSensors[n].unit = FirstRecordOf(ReportedSensors[n].name).unit

\* item.timeWindowStart when the record has one, item.measuredTime otherwise.
PreferredTimestamp(it) ==
    IF it.timeWindowStart # <<>> THEN it.timeWindowStart ELSE it.measuredTime

PreferredHour(it) ==
    getHelsinkiHour(EmptyCache, EmptyCache, PreferredTimestamp(it)).ret

\* C18: a record counts in the hour of its timeWindowStart when it has one
\* and of its measuredTime otherwise, in its sensor's series and in the
\* overall series alike; every record having the value 6, each series is 6
\* in the hours so resolved for its records and 0 in all others.
C18_HourOfPreferredTimestamp ==
    Aggregated =>
        \A hour \in Hours :
            /\ ReportedOverall(hour).trafficCount =
                   (IF \E it \in Fetched : IsTrafficCount(it) /\ PreferredHour(it) = hour
                    THEN 6 ELSE 0)
            /\ ReportedOverall(hour).avgSpeed =
                   (IF \E it \in Fetched : IsSpeed(it) /\ PreferredHour(it) = hour
                    THEN 60 ELSE 0)
            /\ \A n \in 1..Len(ReportedSensors) :
                   ReportedSensors[n].hourlyData[hour + 1].value =
                       (IF \E it \in Fetched : /\ it.name = ReportedSensors[n].name
                                               /\ PreferredHour(it) = hour
                        THEN 60 ELSE 0)

\* A traffic count measured in local hour 14 whose window started in local
\* hour 13 is counted in hour 13.
C18_Witness ==
    /\ Aggregated
    /\ Cardinality(Fetched) = 1
    /\ \E it \in Fetched :
           /\ IsTrafficCount(it)
           /\ it.timeWindowStart # <<>>
           /\ getHelsinkiHour(EmptyCache, EmptyCache, it.measuredTime).ret = 14
           /\ PreferredHour(it) = 13
    /\ ReportedOverall(13).trafficCount = 6
    /\ ReportedOverall(14).trafficCount = 0
    /\ ReportedSensors[1].hourlyData[14].value = 60

(***************************************************************************)
(* SpecFlat: one request against tables that hold, for each day of a run   *)
(* of at most MaxFlatDays days of the window, one traffic count of 100 and *)
(* one speed of 60 at every hour of the day.                               *)
(***************************************************************************)
\* The days of the window of FetchToday, 2024-05-15..2024-06-15, counted from
\* its first day.
FlatWindowDays == 0..31

\* The readings of one day: both sensors at each UTC hour of the day, which
\* are the 24 local hours.
FlatDay(k) ==
    { StoredItem(SensorValue(23, OHITUKSET_60MIN, KplPerH, 100,
                             ApiTimestamp(InstantOf(2024, 4, 15 + k, h)), <<>>)) :
        h \in Hours }
    \cup
    { StoredItem(SensorValue(23, KESKINOPEUS_60MIN, KmPerH, 60,
                             ApiTimestamp(InstantOf(2024, 4, 15 + k, h)), <<>>)) :
        h \in Hours }

\* The runs of at most MaxFlatDays consecutive days of the window.
FlatRuns ==
    { first..(first + n - 1) : first \in FlatWindowDays, n \in 0..MaxFlatDays }

FlatTables ==
    { UNION { FlatDay(k) : k \in days } :
        days \in { run \in FlatRuns : run \subseteq FlatWindowDays } }

InitFlat ==
    /\ store \in FlatTables
    /\ event = [httpMethod |-> "GET", stationId |-> Station23]
    /\ tableName = <<"T", "a", "b", "l", "e">>
    /\ today = FetchToday
    /\ pc = "start"
    /\ items = <<>>
    /\ groupedByNameAndHour = <<>>
    /\ lastEvaluatedKey = NoKey
    /\ page = 0
    /\ query = <<>>
    /\ result = <<>>
    /\ response = <<>>
    /\ queryLog = <<>>
    /\ resultLog = <<>>
    /\ emptyPages = 0
    /\ hourCache = EmptyCache
    /\ dstCache = EmptyCache
    /\ callArg = <<>>
    /\ callRet = NotCalled
    /\ ComponentsIdle

NextFlat ==
    \/ Invoke
    \/ StoreAnswersInFull
    \/ ReceiveLastPage

SpecFlat == InitFlat /\ [][NextFlat]_vars

\* The calendar dates (YYYY-MM-DD) of the fetched records.
FetchedDates == { SubSeq(it.measuredTime, 1, 10) : it \in Fetched }

HourStamp(date, h) ==
    date \o <<"T">> \o PadDecimal(h, 2) \o <<":", "0", "0", ":", "0", "0", "Z">>

\* The fetched records are, for every fetched day and every hour of it, one
\* OHITUKSET_60MIN record (kpl/h) of value 100 and one KESKINOPEUS_60MIN
\* record (km/h) of value 60, and no others.
FlatInput ==
    /\ Fetched # {}
    /\ \A it \in Fetched :
           /\ it.timeWindowStart = <<>>
           /\ \/ it.name = OHITUKSET_60MIN /\ it.unit = KplPerH /\ it.value = 100
              \/ it.name = KESKINOPEUS_60MIN /\ it.unit = KmPerH /\ it.value = 60
    /\ { <<it.name, it.measuredTime>> : it \in Fetched } =
           { <<name, HourStamp(date, h)>> :
               name \in AggNames, date \in FetchedDates, h \in Hours }
    /\ Cardinality(Fetched) = 48 * Cardinality(FetchedDates)

\* The series of the sensor name in sensorData is flat at the value, in
\* tenths.
FlatSeries(name, unit, tenths) ==
    \E n \in 1..Len(ReportedSensors) :
        /\ ReportedSensors[n].name = name
        /\ ReportedSensors[n].unit = unit
        /\ Len(ReportedSensors[n].hourlyData) = 24
        /\ \A h \in Hours :
               ReportedSensors[n].hourlyData[h + 1] = [hour |-> h, value |-> tenths]

DstHours == {0, 12, 21, 22, 23}

DstInstants ==
    { MakeDay(y, m, d) * SecondsPerDay + h * SecondsPerHour :
        y \in FirstYear..LastYear, m \in 0..11, d \in 1..31, h \in DstHours }

DstInputs == { ApiTimestamp(t) : t \in DstInstants }

\* No request is being served (the state of the handler variables in the
\* specifications that call getHelsinkiHour directly).
NoRequest ==
    /\ store = {}
    /\ event = [httpMethod |-> "GET", stationId |-> <<>>]
    /\ tableName = <<>>
    /\ today = 0
    /\ pc = "idle"
    /\ items = <<>>
    /\ groupedByNameAndHour = <<>>
    /\ lastEvaluatedKey = NoKey
    /\ page = 0
    /\ query = <<>>
    /\ result = <<>>
    /\ response = <<>>
    /\ queryLog = <<>>
    /\ resultLog = <<>>
    /\ emptyPages = 0
    /\ ComponentsIdle

InitDST ==
    /\ hourCache = EmptyCache
    /\ dstCache = EmptyCache
    /\ callArg \in DstInputs
    /\ callRet = NotCalled
    /\ NoRequest

ResolveHour ==
    /\ callRet = NotCalled
    /\ LET r == getHelsinkiHour(hourCache, dstCache, callArg)
       IN  /\ callRet' = r.ret
           /\ hourCache' = r.hourCache
           /\ dstCache' = r.dstCache
    /\ UNCHANGED callArg
    /\ UNCHANGED <<envVars, handlerVars, historyVars, componentVars>>

NextDST == ResolveHour

SpecDST == InitDST /\ [][NextDST]_vars

\* The UTC calendar fields of the timestamp the call was given.
ArgYear == getUTCFullYear(DateParse(callArg))
ArgMonth == getUTCMonth(DateParse(callArg))
ArgDay == getUTCDate(DateParse(callArg))
ArgHour == getUTCHours(DateParse(callArg))

Called == callRet # NotCalled
TreatedAsDST == callRet = (ArgHour + 3) % 24
TreatedAsStandard == callRet = (ArgHour + 2) % 24

\* The day-of-month of the last Sunday of a month, read off the calendar.
CalendarLastSunday(y, month) ==
    CHOOSE d \in 1..DaysInMonth(y, month) :
        /\ WeekDay(MakeDay(y, month, d)) = 0
        /\ d + 7 > DaysInMonth(y, month)

\* C4: a March date is treated as daylight-saving (offset +3) exactly when its
\* day-of-month is on or after the last Sunday of March of its year, and as
\* standard time (offset +2) before it.
C4_MarchFromLastSunday ==
    (Called /\ ArgMonth = 2) =>
        /\ TreatedAsDST <=> ArgDay >= CalendarLastSunday(ArgYear, 2)
        /\ TreatedAsStandard <=> ArgDay < CalendarLastSunday(ArgYear, 2)

\* C5: an October date is treated as daylight-saving (offset +3) exactly when
\* its day-of-month is strictly before the last Sunday of October of its year,
\* and as standard time (offset +2) from that Sunday on.
C5_OctoberUntilLastSunday ==
    (Called /\ ArgMonth = 9) =>
        /\ TreatedAsDST <=> ArgDay < CalendarLastSunday(ArgYear, 9)
        /\ TreatedAsStandard <=> ArgDay >= CalendarLastSunday(ArgYear, 9)

\* C6: for a timestamp whose UTC month is April..September the hour returned
\* is (UTC hour + 3) mod 24, and for one whose UTC month is November..February
\* it is (UTC hour + 2) mod 24.
C6_SummerAndWinterOffsets ==
    Called =>
        /\ ArgMonth \in 3..8 => callRet = (ArgHour + 3) % 24
        /\ ArgMonth \in {10, 11, 0, 1} => callRet = (ArgHour + 2) % 24

\* A September evening whose local hour is past midnight.
C6_Witness ==
    /\ Called
    /\ ArgMonth = 8 /\ ArgDay = 30 /\ ArgHour = 22
    /\ callRet = 1

\* C7: for every timestamp string of a stored record the hour returned is an
\* integer in 0..23, one of the 24 buckets created for each sensor name.
C7_HourInRange == Called => callRet \in 0..23

\* The last hour of a year, resolved into the first day of the next.
C7_Witness ==
    /\ Called
    /\ ArgMonth = 11 /\ ArgDay = 31 /\ ArgHour = 23
    /\ callRet = 1

(***************************************************************************)
(* SpecCache: any number of getHelsinkiHour calls, in any order, on the    *)
(* caches the earlier calls left.                                          *)
(***************************************************************************)
\* Timestamps on both sides of the March and October switches (two of them on
\* the same day), in summer and in winter.
CacheInputs ==
    { ApiTimestamp(InstantOf(2024, 2, 24, 23)),
      ApiTimestamp(InstantOf(2024, 2, 25, 10)),
      ApiTimestamp(InstantOf(2024, 2, 25, 23)),
      ApiTimestamp(InstantOf(2024, 6, 1, 10)),
      ApiTimestamp(InstantOf(2024, 9, 27, 22)),
      ApiTimestamp(InstantOf(2024, 9, 28, 22)),
      ApiTimestamp(InstantOf(2024, 0, 11, 10)),
      ApiTimestamp(InstantOf(2024, 10, 1, 10)) }

InitCache ==
    /\ hourCache = EmptyCache
    /\ dstCache = EmptyCache
    /\ callArg = <<>>
    /\ callRet = NotCalled
    /\ NoRequest

CallLocalHour ==
    \E s \in CacheInputs :
        LET r == getHelsinkiHour(hourCache, dstCache, s)
        IN  /\ callArg' = s
            /\ callRet' = r.ret
            /\ hourCache' = r.hourCache
            /\ dstCache' = r.dstCache
            /\ UNCHANGED <<envVars, handlerVars, historyVars, componentVars>>

NextCache == CallLocalHour

SpecCache == InitCache /\ [][NextCache]_vars

\* C8: whatever calls came before, with the same or with other timestamps,
\* getHelsinkiHour returns for a timestamp the hour it returns for it on
\* empty caches.
C8_MemoizationTransparent ==
    Called => callRet = getHelsinkiHour(EmptyCache, EmptyCache, callArg).ret

\* The second timestamp of a day: its hour entry is new, its DST flag was
\* already cached by the first.
C8_Witness ==
    /\ callArg = ApiTimestamp(InstantOf(2024, 2, 25, 23))
    /\ DOMAIN hourCache = { ApiTimestamp(InstantOf(2024, 2, 25, 10)),
                            ApiTimestamp(InstantOf(2024, 2, 25, 23)) }
    /\ Cardinality(DOMAIN dstCache) = 1
    /\ callRet = 2

(***************************************************************************)
(* SpecWindow: one request against an empty table, made at noon of every   *)
(* calendar day of FirstYear..LastYear.                                    *)
(***************************************************************************)
WindowNows ==
    { InstantOf(y, month, day, 12) :
        y \in FirstYear..LastYear, month \in 0..11, day \in 1..31 }

InitWindow ==
    /\ today \in WindowNows
    /\ store = {}
    /\ event = [httpMethod |-> "GET", stationId |-> Station23]
    /\ tableName = <<"T", "a", "b", "l", "e">>
    /\ pc = "start"
    /\ items = <<>>
    /\ groupedByNameAndHour = <<>>
    /\ lastEvaluatedKey = NoKey
    /\ page = 0
    /\ query = <<>>
    /\ result = <<>>
    /\ response = <<>>
    /\ queryLog = <<>>
    /\ resultLog = <<>>
    /\ emptyPages = 0
    /\ hourCache = EmptyCache
    /\ dstCache = EmptyCache
    /\ callArg = <<>>
    /\ callRet = NotCalled
    /\ ComponentsIdle

NextWindow ==
    \/ Invoke
    \/ StoreAnswersInFull
    \/ ReceiveLastPage

SpecWindow == InitWindow /\ [][NextWindow]_vars

\* The year and month (1..12) of a date YYYY-MM-DD, as months since year 0.
MonthsOf(date) ==
    12 * ParseDecimal(SubSeq(date, 1, 4)) + ParseDecimal(SubSeq(date, 6, 7)) - 1

ReportedPeriod == response[1].body.period

\* C21: period.end is today's calendar date and period.start is a date of
\* the calendar month immediately before today's month, also when today's
\* day of the month (29, 30 or 31) does not exist in that month.
C21_StartInPrecedingMonth ==
    Aggregated =>
        /\ ReportedPeriod.end = IsoDate(today)
        /\ IsIsoDate(ReportedPeriod.start)
        /\ MonthsOf(ReportedPeriod.start) = MonthsOf(IsoDate(today)) - 1

(***************************************************************************)
(* SpecRange: one request against every table of at most MaxItems readings *)
(* measured at and around the two ends of the window, their timestamps     *)
(* written with and without fractional seconds.                            *)
(***************************************************************************)
\* The timestamp of an instant with its milliseconds, as toISOString
\* writes it.
RangeStamps ==
    { ApiTimestamp(InstantOf(2024, 4, 14, 23) + 3599),
      toISOString(InstantOf(2024, 4, 14, 23) + 3599, 999),
      ApiTimestamp(InstantOf(2024, 4, 15, 0)),
      toISOString(InstantOf(2024, 4, 15, 0), 0),
      ApiTimestamp(InstantOf(2024, 5, 1, 10)),
      ApiTimestamp(InstantOf(2024, 5, 15, 23) + 3599),
      toISOString(InstantOf(2024, 5, 15, 23) + 3599, 0),
      toISOString(InstantOf(2024, 5, 15, 23) + 3599, 500),
      toISOString(InstantOf(2024, 5, 15, 23) + 3599, 999),
      ApiTimestamp(InstantOf(2024, 5, 16, 0)),
      toISOString(InstantOf(2024, 5, 16, 0), 0) }

RangeUniverse ==
    { StoredItem(SensorValue(23, OHITUKSET_60MIN, KplPerH, 6, stamp, <<>>)) :
        stamp \in RangeStamps }

RECURSIVE RangeReadingsUpTo(_)
RangeReadingsUpTo(n) ==
    IF n = 0 THEN {{}}
    ELSE RangeReadingsUpTo(n - 1) \cup
         { table \cup {it} : table \in RangeReadingsUpTo(n - 1),
                             it \in RangeUniverse }

RangeTables == RangeReadingsUpTo(MaxItems)

InitRange ==
    /\ store \in RangeTables
    /\ event = [httpMethod |-> "GET", stationId |-> Station23]
    /\ tableName = <<"T", "a", "b", "l", "e">>
    /\ today = FetchToday
    /\ pc = "start"
    /\ items = <<>>
    /\ groupedByNameAndHour = <<>>
    /\ lastEvaluatedKey = NoKey
    /\ page = 0
    /\ query = <<>>
    /\ result = <<>>
    /\ response = <<>>
    /\ queryLog = <<>>
    /\ resultLog = <<>>
    /\ emptyPages = 0
    /\ hourCache = EmptyCache
    /\ dstCache = EmptyCache
    /\ callArg = <<>>
    /\ callRet = NotCalled
    /\ ComponentsIdle

NextRange ==
    \/ Invoke
    \/ StoreAnswersInFull
    \/ ReceiveLastPage

SpecRange == InitRange /\ [][NextRange]_vars

\* From 00:00:00.000 UTC of the start date to 23:59:59.999 UTC of the end
\* date: the whole seconds decide, whatever the milliseconds (0..999) are.
InstantInWindow(stamp) ==
    /\ DateParse(stamp) # NaN
    /\ DateParseMillis(stamp) \in 0..999
    /\ DateParse(ReportedPeriod.start) <= DateParse(stamp)
    /\ DateParse(stamp) <= DateParse(ReportedPeriod.end) + SecondsPerDay - 1

\* C22: a stored record of the station is in the queried range of composite
\* keys, and so is fetched, exactly when the instant of its measuredTime is
\* from 00:00:00.000 UTC of the start date to 23:59:59.999 UTC of the end
\* date, whether the timestamp is written with or without fractional seconds.
C22_KeyRangeIsTheInstantRange ==
    Aggregated =>
        Fetched = { it \in store : /\ it.stationId = parseInt(event.stationId)
                                   /\ InstantInWindow(it.measuredTime) }

(***************************************************************************)
(* The processor (daily-data/index.ts:89-209): the SQS handler that writes *)
(* the sensor values of each queue message to the table.                   *)
(***************************************************************************)
\* A record body that JSON.parse rejects, one that parses to an object
\* without trafficData, and one that parses to a TrafficDataSQSMessage.
Unparsable ==
    [parses |-> FALSE, hasTrafficData |-> FALSE, collected |-> <<>>,
     trafficData |-> <<>>]
Misshapen ==
    [parses |-> TRUE, hasTrafficData |-> FALSE, collected |-> <<>>,
     trafficData |-> <<>>]
Message(collected, trafficData) ==
    [parses |-> TRUE, hasTrafficData |-> TRUE, collected |-> collected,
     trafficData |-> trafficData]

\* Lines 115-118: JSON.parse throws, or trafficData.length does.
ThrowsBeforeWriting(body) == ~body.parses \/ ~body.hasTrafficData

\* The sensor values in the order of the loops of lines 136-137.
RECURSIVE SensorValuesOf(_)
SensorValuesOf(trafficData) ==
    IF trafficData = <<>> THEN <<>>
    ELSE Head(trafficData).sensorValues \o SensorValuesOf(Tail(trafficData))

\* PutItem adding the item beside the one that has its key.
PutItemInsert(table, item) == table \cup {item}

\* PutCommand: the item takes the place of the item that has its primary key.
PutItem(table, item) ==
    { it \in table : KeyOf(it) # KeyOf(item) } \cup {item}

\* PushFailure without the find.
PushFailureUnchecked(failures, messageId) ==
    Append(failures, [itemIdentifier |-> messageId])

\* PushFailure pushing nothing.
PushFailureDropped(failures, messageId) == failures

\* Lines 182-184 and 201-203: push unless the messageId is there already.
PushFailure(failures, messageId) ==
    IF \E i \in 1..Len(failures) : failures[i].itemIdentifier = messageId
    THEN failures
    ELSE Append(failures, [itemIdentifier |-> messageId])

\* Lines 200-204: every record of the batch is marked as failed.
RECURSIVE PushAll(_, _, _)
PushAll(failures, recs, i) ==
    IF i > Len(recs) THEN failures
    ELSE PushAll(PushFailure(failures, recs[i].messageId), recs, i + 1)

\* What the history keeps of a record when the handler is through with it.
Processed(record, failures, table) ==
    [body |-> record.body,
     clean |-> \A i \in 1..Len(failures) :
                   failures[i].itemIdentifier # record.messageId,
     store |-> table]

\* The handler from the top of the loop of line 112 at record i to its next
\* await or to its return: a body that throws before the writes is marked
\* as failed by lines 190-193, and a message without sensor values has
\* nothing to await.
RECURSIVE ContinueFrom(_, _, _, _, _)
ContinueFrom(recs, i, failures, log, table) ==
    IF i > Len(recs)
    THEN [pc |-> "done", recordIndex |-> i, valueIndex |-> 0,
          failures |-> failures, log |-> log]
    ELSE IF ThrowsBeforeWriting(recs[i].body)
    THEN ContinueFrom(recs, i + 1,
                      Append(failures, [itemIdentifier |-> recs[i].messageId]),
                      Append(log, [body |-> recs[i].body, clean |-> FALSE,
                                   store |-> table]),
                      table)
    ELSE IF SensorValuesOf(recs[i].body.trafficData) = <<>>
    THEN ContinueFrom(recs, i + 1, failures,
                      Append(log, Processed(recs[i], failures, table)), table)
    ELSE [pc |-> "await", recordIndex |-> i, valueIndex |-> 1,
          failures |-> failures, log |-> log]

\* The handler after the PutCommand of sensor value k of record i, the
\* failures and the table being what that left.
AfterPut(recs, i, k, failures, log, table) ==
    IF k < Len(SensorValuesOf(recs[i].body.trafficData))
    THEN [pc |-> "await", recordIndex |-> i, valueIndex |-> k + 1,
          failures |-> failures, log |-> log]
    ELSE ContinueFrom(recs, i + 1, failures,
                      Append(log, Processed(recs[i], failures, table)), table)

\* The sensor value whose PutCommand is awaited.
CurrentSensorValue ==
    SensorValuesOf(Records[recordIndex].body.trafficData)[valueIndex]

\* The batches of at most n records of the bodies, their messageIds being
\* their positions.
RECURSIVE BatchesUpTo(_, _)
BatchesUpTo(bodies, n) ==
    IF n = 0 THEN {<<>>}
    ELSE BatchesUpTo(bodies, n - 1) \cup
         { Append(batch, [messageId |-> Len(batch) + 1, body |-> body]) :
             batch \in { b \in BatchesUpTo(bodies, n - 1) : Len(b) = n - 1 },
             body \in bodies }

\* SQS invokes the handler with a batch: lines 101-110, and on to the first
\* await or to the return.
ProcessorInvoke(bodies) ==
    /\ processorPc \in {"idle", "done"}
    /\ \E batch \in BatchesUpTo(bodies, MaxRecords - deliveredRecords) \ {<<>>} :
        /\ Records' = batch
        /\ deliveredRecords' = deliveredRecords + Len(batch)
        /\ writeLog' = <<>>
        /\ IF tableName = <<>>
           THEN /\ batchItemFailures' = PushAll(<<>>, batch, 1)
                /\ processorPc' = "done"
                /\ recordIndex' = 0
                /\ valueIndex' = 0
                /\ UNCHANGED processedLog
           ELSE \E next \in {ContinueFrom(batch, 1, <<>>, processedLog, store)} :
                /\ batchItemFailures' = next.failures
                /\ processorPc' = next.pc
                /\ recordIndex' = next.recordIndex
                /\ valueIndex' = next.valueIndex
                /\ processedLog' = next.log
    /\ UNCHANGED <<cacheVars, callVars, envVars, handlerVars, historyVars,
                   collectorVars, dashboardVars,
                   requestVars>>

\* The PutCommand awaited succeeds: lines 165-173.
PutSucceeds ==
    /\ processorPc = "await"
    /\ store' = PutItem(store, StoredItem(CurrentSensorValue))
    /\ writeLog' = Append(writeLog, [record |-> recordIndex,
                                     item |-> StoredItem(CurrentSensorValue),
                                     ok |-> TRUE])
    /\ \E next \in {AfterPut(Records, recordIndex, valueIndex, batchItemFailures,
                             processedLog, store')} :
        /\ batchItemFailures' = next.failures
        /\ processorPc' = next.pc
        /\ recordIndex' = next.recordIndex
        /\ valueIndex' = next.valueIndex
        /\ processedLog' = next.log
    /\ UNCHANGED <<Records, deliveredRecords>>
    /\ UNCHANGED <<cacheVars, callVars, event, tableName, today, handlerVars,
                   historyVars, collectorVars, dashboardVars,
                   requestVars>>

\* PutFails with the failure ending the invocation.
PutFailsAndStops ==
    /\ processorPc = "await"
    /\ writeLog' = Append(writeLog, [record |-> recordIndex,
                                     item |-> StoredItem(CurrentSensorValue),
                                     ok |-> FALSE])
    /\ batchItemFailures' = PushFailure(batchItemFailures,
                                        Records[recordIndex].messageId)
    /\ processorPc' = "done"
    /\ UNCHANGED <<Records, deliveredRecords, recordIndex, valueIndex, processedLog>>
    /\ UNCHANGED <<cacheVars, callVars, envVars, handlerVars, historyVars,
                   collectorVars, dashboardVars,
                   requestVars>>

\* The PutCommand awaited fails: the catch of lines 174-185.
PutFails ==
    /\ processorPc = "await"
    /\ writeLog' = Append(writeLog, [record |-> recordIndex,
                                     item |-> StoredItem(CurrentSensorValue),
                                     ok |-> FALSE])
    /\ \E next \in {AfterPut(Records, recordIndex, valueIndex,
                             PushFailure(batchItemFailures,
                                         Records[recordIndex].messageId),
                             processedLog, store)} :
        /\ batchItemFailures' = next.failures
        /\ processorPc' = next.pc
        /\ recordIndex' = next.recordIndex
        /\ valueIndex' = next.valueIndex
        /\ processedLog' = next.log
    /\ UNCHANGED <<Records, deliveredRecords>>
    /\ UNCHANGED <<cacheVars, callVars, envVars, handlerVars, historyVars,
                   collectorVars, dashboardVars,
                   requestVars>>

(***************************************************************************)
(* SpecProcessor: deliveries of batches, MaxRecords records in all, the    *)
(* bodies taken from ProcessorBodies, every PutCommand free to fail.       *)
(***************************************************************************)
\* A reading of station 23, the same reading of the same instant with
\* another value, and a reading of station 24.
ReadingA == SensorValue(23, OHITUKSET_60MIN, KplPerH, 6,
                        ApiTimestamp(InstantOf(2024, 5, 1, 10)),
                        ApiTimestamp(InstantOf(2024, 5, 1, 9)))
ReadingA7 == SensorValue(23, OHITUKSET_60MIN, KplPerH, 7,
                         ApiTimestamp(InstantOf(2024, 5, 1, 10)),
                         ApiTimestamp(InstantOf(2024, 5, 1, 9)))
ReadingB == SensorValue(24, KESKINOPEUS_60MIN, KmPerH, 60,
                        ApiTimestamp(InstantOf(2024, 5, 1, 10)),
                        ApiTimestamp(InstantOf(2024, 5, 1, 9)))

Collected == toISOString(InstantOf(2024, 5, 1, 10) + 300, 0)

\* A body that does not parse, one without trafficData, a message of one
\* station and a message of two stations that carries another value for the
\* first one's reading.
ProcessorBodies ==
    { Unparsable, Misshapen,
      Message(Collected, <<[sensorValues |-> <<ReadingA>>]>>),
      Message(Collected, <<[sensorValues |-> <<ReadingA7>>],
                           [sensorValues |-> <<ReadingB>>]>>) }

\* No request is made of the hourly-average handler, and its caches are
\* empty.
AggregationIdle ==
    /\ event = [httpMethod |-> "GET", stationId |-> <<>>]
    /\ pc = "idle"
    /\ items = <<>>
    /\ groupedByNameAndHour = <<>>
    /\ lastEvaluatedKey = NoKey
    /\ page = 0
    /\ query = <<>>
    /\ result = <<>>
    /\ response = <<>>
    /\ queryLog = <<>>
    /\ resultLog = <<>>
    /\ emptyPages = 0
    /\ hourCache = EmptyCache
    /\ dstCache = EmptyCache
    /\ callArg = <<>>
    /\ callRet = NotCalled

InitProcessor ==
    /\ RequestsIdle
    /\ ProcessorIdle
    /\ CollectorIdle
    /\ DashboardIdle
    /\ AggregationIdle
    /\ store = {}
    /\ tableName \in TableNames
    /\ today = 0

NextProcessor ==
    \/ ProcessorInvoke(ProcessorBodies)
    \/ PutSucceeds
    \/ PutFails

SpecProcessor == InitProcessor /\ [][NextProcessor]_vars


\* The sensor values a message carries.
HasSensorValues(body) ==
    /\ ~ThrowsBeforeWriting(body)
    /\ SensorValuesOf(body.trafficData) # <<>>

\* C23: writing is an idempotent upsert: whatever was delivered and
\* redelivered, the store holds at most one item per (stationId,
\* measuredTime, sensor name), and when a message is processed again right
\* after it was processed with every write succeeding, the store is after
\* the second processing what it was after the first.
C23_IdempotentUpsert ==
    /\ \A a, b \in store :
           (/\ a.stationId = b.stationId
            /\ a.measuredTime = b.measuredTime
            /\ a.name = b.name) => a = b
    /\ \A i \in 1..(Len(processedLog) - 1) :
           (/\ processedLog[i].clean
            /\ processedLog[i + 1].body = processedLog[i].body)
           => processedLog[i + 1].store = processedLog[i].store

\* A message with sensor values was processed twice in a row, every write
\* succeeding both times, over a store that held another value under one of
\* its keys.
C23_Witness ==
    \E i \in 2..(Len(processedLog) - 1) :
        /\ HasSensorValues(processedLog[i].body)
        /\ processedLog[i].clean
        /\ processedLog[i + 1].clean
        /\ processedLog[i + 1].body = processedLog[i].body
        /\ processedLog[i - 1].store # {}
        /\ processedLog[i - 1].store # processedLog[i].store
        /\ Cardinality(processedLog[i - 1].store) = Cardinality(processedLog[i].store)


\* The messageIds the invocation reports, the records one of whose writes
\* failed, and the records every sensor value of which was written.
ReportedIds ==
    { batchItemFailures[i].itemIdentifier : i \in 1..Len(batchItemFailures) }

WriteFailed(i) ==
    \E w \in 1..Len(writeLog) : writeLog[w].record = i /\ ~writeLog[w].ok

AllWritten(i) ==
    /\ ~ThrowsBeforeWriting(Records[i].body)
    /\ Cardinality({ w \in 1..Len(writeLog) :
                       writeLog[w].record = i /\ writeLog[w].ok })
         = Len(SensorValuesOf(Records[i].body.trafficData))

\* C25 as stated: a message is reported if and only if its body failed to
\* parse, one of its writes failed, or the table name is not configured
\* (then every message is reported and nothing is written); a message all
\* of whose sensor values were written is never reported.
C25_ReportedIffParseOrWriteFailed ==
    processorPc = "done" =>
        /\ \A i \in 1..Len(Records) :
               (Records[i].messageId \in ReportedIds)
               <=> \/ ~Records[i].body.parses
                   \/ WriteFailed(i)
                   \/ tableName = <<>>
        /\ tableName = <<>> => writeLog = <<>> /\ store = {}
        /\ \A i \in 1..Len(Records) :
               (tableName # <<>> /\ AllWritten(i))
               => Records[i].messageId \notin ReportedIds

\* C25: a message is reported if and only if its body failed to parse or
\* parsed to something that has no trafficData, one of its writes failed,
\* or the table name is not configured (then every message is reported and
\* nothing is written); a message all of whose sensor values were written
\* is never reported.
C25_ReportedIffThrewOrWriteFailed ==
    processorPc = "done" =>
        /\ \A i \in 1..Len(Records) :
               (Records[i].messageId \in ReportedIds)
               <=> \/ ThrowsBeforeWriting(Records[i].body)
                   \/ WriteFailed(i)
                   \/ tableName = <<>>
        /\ tableName = <<>> => writeLog = <<>> /\ store = {}
        /\ \A i \in 1..Len(Records) :
               (tableName # <<>> /\ AllWritten(i))
               => Records[i].messageId \notin ReportedIds

\* A batch is through in which one message is reported for a failed write,
\* one for its body, and one, every value of which was written, is not.
C25_Witness ==
    /\ processorPc = "done"
    /\ tableName # <<>>
    /\ \E i, j, k \in 1..Len(Records) :
        /\ WriteFailed(i) /\ Records[i].messageId \in ReportedIds
        /\ ThrowsBeforeWriting(Records[j].body)
        /\ Records[j].messageId \in ReportedIds
        /\ HasSensorValues(Records[k].body) /\ AllWritten(k)
        /\ Records[k].messageId \notin ReportedIds


\* C26: whatever the batch and whichever bodies throw and writes fail, the
\* handler is at an await or has returned (it has no position in which it
\* threw), what it returns names records of the batch only, and no
\* messageId is in batchItemFailures twice.
C26_ReturnsEachIdAtMostOnce ==
    /\ processorPc \in {"idle", "await", "done"}
    /\ \A i, j \in 1..Len(batchItemFailures) :
           batchItemFailures[i].itemIdentifier = batchItemFailures[j].itemIdentifier
           => i = j
    /\ ReportedIds \subseteq { Records[i].messageId : i \in 1..Len(Records) }

\* The handler returned from a batch in which two writes of one message
\* failed and the body of another message threw.
C26_Witness ==
    /\ processorPc = "done"
    /\ \E i, j \in 1..Len(Records) :
        /\ Cardinality({ w \in 1..Len(writeLog) :
                           writeLog[w].record = i /\ ~writeLog[w].ok }) = 2
        /\ Records[i].messageId \in ReportedIds
        /\ ThrowsBeforeWriting(Records[j].body)
        /\ Records[j].messageId \in ReportedIds


\* The PutCommands a batch calls for, in the order of the loops: those of
\* the sensor values of record i, and those of the records from i on.
AttemptsOfRecord(recs, i) ==
    IF ThrowsBeforeWriting(recs[i].body) THEN <<>>
    ELSE [k \in 1..Len(SensorValuesOf(recs[i].body.trafficData)) |->
            [record |-> i,
             item |-> StoredItem(SensorValuesOf(recs[i].body.trafficData)[k])]]

RECURSIVE AttemptsFrom(_, _)
AttemptsFrom(recs, i) ==
    IF i > Len(recs) THEN <<>>
    ELSE AttemptsOfRecord(recs, i) \o AttemptsFrom(recs, i + 1)

\* C27: a failed write does not stop processing: when the handler returns,
\* a PutCommand was sent for every sensor value of every message of the
\* batch, in order, whichever of them failed, and the store holds every
\* item whose write succeeded (unless a later write of the batch succeeded
\* under the same key), those of reported messages too.
C27_FailedWriteDoesNotStopProcessing ==
    (processorPc = "done" /\ tableName # <<>>) =>
        /\ Len(writeLog) = Len(AttemptsFrom(Records, 1))
        /\ \A w \in 1..Len(writeLog) :
            /\ writeLog[w].record = AttemptsFrom(Records, 1)[w].record
            /\ writeLog[w].item = AttemptsFrom(Records, 1)[w].item
            /\ (/\ writeLog[w].ok
                /\ \A v \in (w + 1)..Len(writeLog) :
                       writeLog[v].ok => KeyOf(writeLog[v].item) # KeyOf(writeLog[w].item))
               => writeLog[w].item \in store

\* The first write of a message failed; its second write and the write of
\* the next message succeeded, and what they wrote is in the store.
C27_Witness ==
    /\ processorPc = "done"
    /\ Len(writeLog) = 3
    /\ ~writeLog[1].ok /\ writeLog[2].ok /\ writeLog[3].ok
    /\ writeLog[1].record = 1 /\ writeLog[2].record = 1 /\ writeLog[3].record = 2
    /\ Records[1].messageId \in ReportedIds
    /\ writeLog[2].item \in store
    /\ writeLog[3].item \in store


(***************************************************************************)
(* The collector (daily-data/index.ts:212-320): the scheduled handler that *)
(* fetches the data of every station and sends it to the queue in one      *)
(* message.                                                                *)
(***************************************************************************)
\* filter(sensor => sensor.timeWindowStart) keeping every sensor value.
Unfiltered(sensorValues) == sensorValues

\* Line 246: data.sensorValues.filter(sensor => sensor.timeWindowStart).
WithTimeWindowStart(sensorValues) ==
    SelectSeq(sensorValues, LAMBDA sensor : sensor.timeWindowStart # <<>>)

Pending == [state |-> "pending", data |-> <<>>]

CollectorReturns(statusCode) == <<[statusCode |-> statusCode]>>

AllFetched(fetches) ==
    \A i \in 1..Len(fetches) : fetches[i].state = "fulfilled"

\* Lines 251-266, Promise.all having resolved: without the queue URL the
\* handler throws, and its catch returns 500; with it, it goes on to send.
AfterPromiseAll ==
    IF queueUrl = <<>>
    THEN /\ collectorPc' = "returned"
         /\ collectorResult' = CollectorReturns(500)
    ELSE /\ collectorPc' = "sending"
         /\ UNCHANGED collectorResult

\* The message of lines 272-275.
dataWithTimestamp ==
    Message(toISOString(today, 0),
            [i \in 1..Len(stationFetch) |->
                [sensorValues |-> stationFetch[i].data]])

\* The inputs of the collector: the queue URL, the stations near Tampere,
\* and the answers of the API.
QueueUrls == { <<>>, <<"Q">> }

CollectorStationLists == { <<>>, <<23>>, <<23, 24>>, <<23, 24, 25>> }

\* Two sensor values of the station with a time window, and one without.
Windowed(stationId) ==
    SensorValue(stationId, OHITUKSET_60MIN, KplPerH, 6,
                ApiTimestamp(InstantOf(2024, 5, 1, 10)),
                ApiTimestamp(InstantOf(2024, 5, 1, 9)))
WindowedSpeed(stationId) ==
    SensorValue(stationId, KESKINOPEUS_60MIN, KmPerH, 60,
                ApiTimestamp(InstantOf(2024, 5, 1, 10)),
                ApiTimestamp(InstantOf(2024, 5, 1, 9)))
Unwindowed(stationId) ==
    SensorValue(stationId, KESKINOPEUS, KmPerH, 60,
                ApiTimestamp(InstantOf(2024, 5, 1, 10)), <<>>)

\* What the API may answer for the station.
CollectorAnswers(stationId) ==
    { <<>>, <<Windowed(stationId)>>, <<Unwindowed(stationId)>>,
      <<Unwindowed(stationId), Windowed(stationId)>>,
      <<Windowed(stationId), Unwindowed(stationId), WindowedSpeed(stationId)>> }

\* The scheduler invokes the handler: lines 222-227.
CollectorInvoke ==
    /\ collectorPc = "idle"
    /\ collectorPc' = "stations"
    /\ UNCHANGED <<queueUrl, tampereStations, stationFetch, collectorResult,
                   sentMessages>>
    /\ UNCHANGED <<cacheVars, callVars, envVars, handlerVars, historyVars,
                   processorVars, dashboardVars,
                   requestVars>>

\* getTampereStations() resolves: every station's request is made (line
\* 233), and Promise.all of no promises resolves at once.
StationsArrive(stationLists) ==
    /\ collectorPc = "stations"
    /\ \E stations \in stationLists :
        /\ tampereStations' = stations
        /\ stationFetch' = [i \in 1..Len(stations) |-> Pending]
        /\ IF stations = <<>>
           THEN AfterPromiseAll
           ELSE /\ collectorPc' = "fetching"
                /\ UNCHANGED collectorResult
    /\ UNCHANGED <<queueUrl, sentMessages>>
    /\ UNCHANGED <<cacheVars, callVars, envVars, handlerVars, historyVars,
                   processorVars, dashboardVars,
                   requestVars>>

\* getTampereStations() rejects: the catch of lines 313-319.
StationsFail ==
    /\ collectorPc = "stations"
    /\ collectorPc' = "returned"
    /\ collectorResult' = CollectorReturns(500)
    /\ UNCHANGED <<queueUrl, tampereStations, stationFetch, sentMessages>>
    /\ UNCHANGED <<cacheVars, callVars, envVars, handlerVars, historyVars,
                   processorVars, dashboardVars,
                   requestVars>>

\* The data of station i arrives: lines 234-249.  The last of them resolves
\* Promise.all, unless the handler has returned for a rejection.
FetchSucceeds ==
    /\ collectorPc \in {"fetching", "returned"}
    /\ \E i \in 1..Len(stationFetch) :
        /\ stationFetch[i].state = "pending"
        /\ \E sensorValues \in CollectorAnswers(tampereStations[i]) :
            /\ stationFetch' =
                   [stationFetch EXCEPT ![i] =
                       [state |-> "fulfilled",
                        data |-> WithTimeWindowStart(sensorValues)]]
            /\ IF collectorPc = "fetching" /\ AllFetched(stationFetch')
               THEN AfterPromiseAll
               ELSE UNCHANGED <<collectorPc, collectorResult>>
    /\ UNCHANGED <<queueUrl, tampereStations, sentMessages>>
    /\ UNCHANGED <<cacheVars, callVars, envVars, handlerVars, historyVars,
                   processorVars, dashboardVars,
                   requestVars>>

\* The request for the data of station i fails: Promise.all rejects with
\* the first failure, and the catch of lines 313-319 returns.
FetchFails ==
    /\ collectorPc \in {"fetching", "returned"}
    /\ \E i \in 1..Len(stationFetch) :
        /\ stationFetch[i].state = "pending"
        /\ stationFetch' = [stationFetch EXCEPT ![i] =
                               [state |-> "rejected", data |-> <<>>]]
    /\ IF collectorPc = "fetching"
       THEN /\ collectorPc' = "returned"
            /\ collectorResult' = CollectorReturns(500)
       ELSE UNCHANGED <<collectorPc, collectorResult>>
    /\ UNCHANGED <<queueUrl, tampereStations, sentMessages>>
    /\ UNCHANGED <<cacheVars, callVars, envVars, handlerVars, historyVars,
                   processorVars, dashboardVars,
                   requestVars>>

\* The SendMessageCommand succeeds: lines 299-311.
SendSucceeds ==
    /\ collectorPc = "sending"
    /\ sentMessages' = Append(sentMessages, dataWithTimestamp)
    /\ collectorPc' = "returned"
    /\ collectorResult' = CollectorReturns(200)
    /\ UNCHANGED <<queueUrl, tampereStations, stationFetch>>
    /\ UNCHANGED <<cacheVars, callVars, envVars, handlerVars, historyVars,
                   processorVars, dashboardVars,
                   requestVars>>

\* The SendMessageCommand fails: the catch of lines 313-319.
SendFails ==
    /\ collectorPc = "sending"
    /\ collectorPc' = "returned"
    /\ collectorResult' = CollectorReturns(500)
    /\ UNCHANGED <<queueUrl, tampereStations, stationFetch, sentMessages>>
    /\ UNCHANGED <<cacheVars, callVars, envVars, handlerVars, historyVars,
                   processorVars, dashboardVars,
                   requestVars>>

(***************************************************************************)
(* SpecCollector: one invocation of the collector, for up to three         *)
(* stations, with or without the queue URL, every request free to fail.    *)
(***************************************************************************)
InitCollector ==
    /\ RequestsIdle
    /\ ProcessorIdle
    /\ DashboardIdle
    /\ AggregationIdle
    /\ store = {}
    /\ tableName = <<>>
    /\ today = InstantOf(2024, 5, 1, 10) + 300
    /\ collectorPc = "idle"
    /\ queueUrl \in QueueUrls
    /\ tampereStations = <<>>
    /\ stationFetch = <<>>
    /\ collectorResult = <<>>
    /\ sentMessages = <<>>

NextCollector ==
    \/ CollectorInvoke
    \/ StationsArrive(CollectorStationLists)
    \/ StationsFail
    \/ FetchSucceeds
    \/ FetchFails
    \/ SendSucceeds
    \/ SendFails

SpecCollector == InitCollector /\ [][NextCollector]_vars


\* C28: the collector sends at most one message per invocation, and only
\* after every station's request has succeeded and with the queue URL
\* configured; when a station's request has failed or the queue URL is
\* missing it returns 500 and has sent nothing; every sensor value of a
\* sent message has a timeWindowStart.
C28_OneMessageAfterEveryFetch ==
    /\ Len(sentMessages) <= 1
    /\ sentMessages # <<>> =>
        /\ queueUrl # <<>>
        /\ AllFetched(stationFetch)
        /\ collectorResult = CollectorReturns(200)
        /\ Len(sentMessages[1].trafficData) = Len(tampereStations)
        /\ \A i \in 1..Len(sentMessages[1].trafficData) :
            \A k \in 1..Len(sentMessages[1].trafficData[i].sensorValues) :
                sentMessages[1].trafficData[i].sensorValues[k].timeWindowStart # <<>>
    /\ (/\ collectorPc = "returned"
        /\ \/ queueUrl = <<>>
           \/ \E i \in 1..Len(stationFetch) : stationFetch[i].state = "rejected")
       => /\ collectorResult = CollectorReturns(500)
          /\ sentMessages = <<>>

\* A message of two stations was sent, the API having answered for one of
\* them with a sensor value that has no timeWindowStart.
C28_Witness ==
    /\ Len(sentMessages) = 1
    /\ Len(tampereStations) = 2
    /\ Len(sentMessages[1].trafficData[1].sensorValues) = 2
    /\ sentMessages[1].trafficData[2].sensorValues = <<>>
    /\ collectorResult = CollectorReturns(200)


(***************************************************************************)
(* The dashboard (StationSelector.tsx:101-193): the state of               *)
(* StationSelector, the effect that fetches the hourly average of the      *)
(* selected station, and the selection of a station.                       *)
(***************************************************************************)
\* The stations of the dropdown, and selections made in all.
DashboardStations == {"23", "24"}
MaxSelections == 3

FailedToFetch == <<"Failed to fetch data. Please try again.">>

\* The body the API answers with for the station, and the station details.
HourlyAverageOf(stationId) == <<[stationId |-> stationId]>>
StationDetailsOf(stationId) == <<[id |-> stationId]>>

\* The effect of lines 133-152 after a render in which selectedStation has
\* become stationId: a changed, non-empty selection starts a request.
FetchEffect(stationId) ==
    IF stationId # selectedStation /\ stationId # ""
    THEN /\ loading' = TRUE
         /\ fetchError' = <<>>
         /\ hourlyRequests' =
                hourlyRequests \cup {[id |-> clicks + 1, stationId |-> stationId]}
    ELSE UNCHANGED <<loading, fetchError, hourlyRequests>>

\* A click on the option of a station: lines 257-261 and 178-180.
SelectStation ==
    /\ clicks < MaxSelections
    /\ \E stationId \in DashboardStations :
        /\ selectedStation' = stationId
        /\ FetchEffect(stationId)
        /\ detailsRequests' =
               detailsRequests \cup {[id |-> clicks + 1, stationId |-> stationId]}
    /\ clicks' = clicks + 1
    /\ UNCHANGED <<hourlyAverage, selectedStationData>>
    /\ UNCHANGED <<cacheVars, callVars, envVars, handlerVars, historyVars,
                   processorVars, collectorVars,
                   requestVars>>

\* A click on "-- Select a station --": lines 236-239.
SelectDefault ==
    /\ clicks < MaxSelections
    /\ selectedStation' = ""
    /\ FetchEffect("")
    /\ clicks' = clicks + 1
    /\ UNCHANGED <<hourlyAverage, selectedStationData, detailsRequests>>
    /\ UNCHANGED <<cacheVars, callVars, envVars, handlerVars, historyVars,
                   processorVars, collectorVars,
                   requestVars>>

\* The response of a request arrives: lines 142 and 147.
HourlyAverageArrives ==
    /\ \E request \in hourlyRequests :
        /\ hourlyAverage' = HourlyAverageOf(request.stationId)
        /\ hourlyRequests' = hourlyRequests \ {request}
    /\ loading' = FALSE
    /\ UNCHANGED <<selectedStation, fetchError, selectedStationData,
                   detailsRequests, clicks>>
    /\ UNCHANGED <<cacheVars, callVars, envVars, handlerVars, historyVars,
                   processorVars, collectorVars,
                   requestVars>>

\* A request fails: lines 143-148.
HourlyAverageFails ==
    /\ \E request \in hourlyRequests :
        hourlyRequests' = hourlyRequests \ {request}
    /\ fetchError' = FailedToFetch
    /\ loading' = FALSE
    /\ UNCHANGED <<selectedStation, hourlyAverage, selectedStationData,
                   detailsRequests, clicks>>
    /\ UNCHANGED <<cacheVars, callVars, envVars, handlerVars, historyVars,
                   processorVars, collectorVars,
                   requestVars>>

\* The details of a station arrive: lines 180-192.
StationDetailsArrive ==
    /\ \E request \in detailsRequests :
        /\ selectedStationData' = StationDetailsOf(request.stationId)
        /\ detailsRequests' = detailsRequests \ {request}
    /\ UNCHANGED <<selectedStation, hourlyAverage, loading, fetchError,
                   hourlyRequests, clicks>>
    /\ UNCHANGED <<cacheVars, callVars, envVars, handlerVars, historyVars,
                   processorVars, collectorVars,
                   requestVars>>

\* The request for the details fails: fetchStationDetails returns null
\* (lines 172-175), and line 181 leaves the state as it is.
StationDetailsFail ==
    /\ \E request \in detailsRequests :
        detailsRequests' = detailsRequests \ {request}
    /\ UNCHANGED <<selectedStation, hourlyAverage, loading, fetchError,
                   selectedStationData, hourlyRequests, clicks>>
    /\ UNCHANGED <<cacheVars, callVars, envVars, handlerVars, historyVars,
                   processorVars, collectorVars,
                   requestVars>>

(***************************************************************************)
(* SpecDashboard: MaxSelections selections among two stations and none,    *)
(* every response free to arrive at any time or to fail.                   *)
(***************************************************************************)
InitDashboard ==
    /\ RequestsIdle
    /\ ProcessorIdle
    /\ CollectorIdle
    /\ AggregationIdle
    /\ DashboardIdle
    /\ store = {}
    /\ tableName = <<>>
    /\ today = 0

NextDashboard ==
    \/ SelectStation
    \/ SelectDefault
    \/ HourlyAverageArrives
    \/ HourlyAverageFails
    \/ StationDetailsArrive
    \/ StationDetailsFail

SpecDashboard == InitDashboard /\ [][NextDashboard]_vars

\* C29: whenever no hourly-average request is in flight (and none has
\* failed since the selection), hourlyAverage is the response for the
\* selected station: after selecting A and then B before A's response
\* arrives, the data is B's, whatever the order of the responses.
C29_DataIsOfSelectedStation ==
    (/\ hourlyRequests = {}
     /\ selectedStation # ""
     /\ fetchError = <<>>)
    => hourlyAverage = HourlyAverageOf(selectedStation)

\* C30: loading is true whenever an hourly-average request is in flight,
\* and false only when none is.
C30_LoadingWhileInFlight ==
    loading <=> hourlyRequests # {}


(***************************************************************************)
(* Concurrent requests: several invocations of the hourly-average handler  *)
(* in one process.  Each has its own locals (requests[r]); hourCache and   *)
(* dstCache are the module-level objects of lines 20-21, which all of them *)
(* read and write.  An invocation runs from one await to the next without  *)
(* interruption, so the invocations interleave at the awaits of line 153.  *)
(***************************************************************************)
\* Requests made of the process in all.
MaxRequests == 2

NotInvoked ==
    [pc |-> "start", event |-> [httpMethod |-> "GET", stationId |-> <<>>],
     items |-> <<>>, query |-> <<>>, result |-> <<>>, response |-> <<>>]

\* Lines 84-152 for request r: as Invoke.
InvokeConcurrent(r, events) ==
    /\ requests[r].pc = "start"
    /\ \E ev \in events :
        requests' = [requests EXCEPT ![r] =
            IF ev.httpMethod = "OPTIONS" \/ ev.stationId = <<>> \/ tableName = <<>>
            THEN [@ EXCEPT !.event = ev,
                           !.response =
                               IF ev.httpMethod = "OPTIONS" THEN Returned(200, <<>>)
                               ELSE IF ev.stationId = <<>>
                               THEN Returned(400, [message |-> "Missing stationId parameter"])
                               ELSE InternalError,
                           !.pc = "done"]
            ELSE [@ EXCEPT !.event = ev,
                           !.query = <<QueryCommand(ev, today, NoKey)>>,
                           !.pc = "await"]]
    /\ UNCHANGED <<cacheVars, callVars, envVars, handlerVars, historyVars,
                   processorVars, collectorVars, dashboardVars>>

\* The store answers the query of request r with a page (one that holds an
\* item or ends the query).
StoreAnswersConcurrent(r) ==
    /\ requests[r].query # <<>> /\ requests[r].result = <<>>
    /\ \E answer \in QueryResults(store, requests[r].query[1]) :
        /\ answer.Items # <<>> \/ answer.LastEvaluatedKey = NoKey
        /\ requests' = [requests EXCEPT ![r].result = <<answer>>]
    /\ UNCHANGED <<cacheVars, callVars, envVars, handlerVars, historyVars,
                   processorVars, collectorVars, dashboardVars>>

\* The store fails the query of request r.
StoreFailsConcurrent(r) ==
    /\ requests[r].query # <<>> /\ requests[r].result = <<>>
    /\ requests' = [requests EXCEPT ![r].result = <<QueryError>>]
    /\ UNCHANGED <<cacheVars, callVars, envVars, handlerVars, historyVars,
                   processorVars, collectorVars, dashboardVars>>

\* Request r resumes with a page that carries a LastEvaluatedKey: as
\* ReceivePageAndContinue.
ReceivePageAndContinueConcurrent(r) ==
    /\ requests[r].pc = "await" /\ requests[r].result # <<>>
    /\ ~requests[r].result[1].error
    /\ LoopContinues(requests[r].result[1].LastEvaluatedKey)
    /\ requests' = [requests EXCEPT
           ![r].items = ConcatPage(@, requests[r].result[1]),
           ![r].query = <<QueryCommand(requests[r].event, today,
                                       requests[r].result[1].LastEvaluatedKey)>>,
           ![r].result = <<>>]
    /\ UNCHANGED <<cacheVars, callVars, envVars, handlerVars, historyVars,
                   processorVars, collectorVars, dashboardVars>>

\* ReceiveLastPageConcurrent with the caches emptied before the aggregation.
ReceiveLastPageFreshCaches(r) ==
    /\ requests[r].pc = "await" /\ requests[r].result # <<>>
    /\ ~requests[r].result[1].error
    /\ ~LoopContinues(requests[r].result[1].LastEvaluatedKey)
    /\ \E a \in {Aggregate(ConcatPage(requests[r].items, requests[r].result[1]),
                           EmptyCache, EmptyCache, requests[r].event.stationId,
                           startDate(today), endDate(today))} :
           /\ requests' = [requests EXCEPT
                  ![r].items = ConcatPage(@, requests[r].result[1]),
                  ![r].response = IF a.threw THEN InternalError
                                  ELSE Returned(200, a.body),
                  ![r].query = <<>>,
                  ![r].result = <<>>,
                  ![r].pc = "done"]
           /\ hourCache' = a.hourCache
           /\ dstCache' = a.dstCache
    /\ UNCHANGED <<callVars, envVars, handlerVars, historyVars,
                   processorVars, collectorVars, dashboardVars>>

\* Request r resumes with a page that carries no LastEvaluatedKey, and
\* aggregates on the caches as they are now: as ReceiveLastPage.
ReceiveLastPageConcurrent(r) ==
    /\ requests[r].pc = "await" /\ requests[r].result # <<>>
    /\ ~requests[r].result[1].error
    /\ ~LoopContinues(requests[r].result[1].LastEvaluatedKey)
    /\ \E a \in {Aggregate(ConcatPage(requests[r].items, requests[r].result[1]),
                           hourCache, dstCache, requests[r].event.stationId,
                           startDate(today), endDate(today))} :
           /\ requests' = [requests EXCEPT
                  ![r].items = ConcatPage(@, requests[r].result[1]),
                  ![r].response = IF a.threw THEN InternalError
                                  ELSE Returned(200, a.body),
                  ![r].query = <<>>,
                  ![r].result = <<>>,
                  ![r].pc = "done"]
           /\ hourCache' = a.hourCache
           /\ dstCache' = a.dstCache
    /\ UNCHANGED <<callVars, envVars, handlerVars, historyVars,
                   processorVars, collectorVars, dashboardVars>>

\* The query of request r threw: as CatchQueryError.
CatchQueryErrorConcurrent(r) ==
    /\ requests[r].pc = "await" /\ requests[r].result # <<>>
    /\ requests[r].result[1].error
    /\ requests' = [requests EXCEPT ![r].response = InternalError,
                                    ![r].query = <<>>,
                                    ![r].result = <<>>,
                                    ![r].pc = "done"]
    /\ UNCHANGED <<cacheVars, callVars, envVars, handlerVars, historyVars,
                   processorVars, collectorVars, dashboardVars>>

(***************************************************************************)
(* SpecConcurrent: MaxRequests requests for two stations, in every         *)
(* interleaving, against a table whose readings are of 25 March 2024; the  *)
(* two stations have a timestamp in common, and one of them has another    *)
(* timestamp of the same date.                                             *)
(***************************************************************************)
Station24 == <<"2", "4">>

ConcurrentEvents ==
    { [httpMethod |-> "GET", stationId |-> Station23],
      [httpMethod |-> "GET", stationId |-> Station24],
      [httpMethod |-> "GET", stationId |-> <<>>] }

\* The request is made on 2024-04-10.
ConcurrentToday == InstantOf(2024, 3, 10, 12)

CountedAt(stationId, instant) ==
    StoredItem(SensorValue(stationId, OHITUKSET_60MIN, KplPerH, 6,
                           ApiTimestamp(instant + SecondsPerHour),
                           ApiTimestamp(instant)))

ConcurrentTable ==
    { CountedAt(23, InstantOf(2024, 2, 25, 10)),
      CountedAt(24, InstantOf(2024, 2, 25, 10)),
      CountedAt(24, InstantOf(2024, 2, 25, 22)) }

InitConcurrent ==
    /\ ProcessorIdle
    /\ CollectorIdle
    /\ DashboardIdle
    /\ AggregationIdle
    /\ store = ConcurrentTable
    /\ tableName \in TableNames
    /\ today = ConcurrentToday
    /\ requests = [r \in 1..MaxRequests |-> NotInvoked]

NextConcurrent ==
    \E r \in 1..MaxRequests :
        \/ InvokeConcurrent(r, ConcurrentEvents)
        \/ StoreAnswersConcurrent(r)
        \/ StoreFailsConcurrent(r)
        \/ ReceivePageAndContinueConcurrent(r)
        \/ ReceiveLastPageConcurrent(r)
        \/ CatchQueryErrorConcurrent(r)

SpecConcurrent == InitConcurrent /\ [][NextConcurrent]_vars

\* The dstCache key of the date of a timestamp, and the flag the rule of
\* isDSTForDate yields for that date.
DateKeyOf(utcTimeString) ==
    dateKey(getUTCFullYear(DateParse(utcTimeString)),
            getUTCMonth(DateParse(utcTimeString)),
            getUTCDate(DateParse(utcTimeString)))

RuleOfDate(utcTimeString) ==
    ComputeDST(getUTCFullYear(DateParse(utcTimeString)),
               getUTCMonth(DateParse(utcTimeString)),
               getUTCDate(DateParse(utcTimeString)))

\* Every entry of the caches hc and dc is what the rule yields for its key
\* alone: the hour getHelsinkiHour returns for the timestamp on empty
\* caches, and the flag of the date of the key.
CachesPure(hc, dc) ==
    /\ \A key \in DOMAIN hc :
           hc[key] = getHelsinkiHour(EmptyCache, EmptyCache, key).ret
    /\ \A key \in DOMAIN dc :
        /\ \E it \in store : DateKeyOf(timeString(it)) = key
        /\ \A it \in store :
               DateKeyOf(timeString(it)) = key => dc[key] = RuleOfDate(timeString(it))

\* C24: under every interleaving of concurrent requests the caches are
\* append-only and pure: no step removes or changes an entry, and after
\* every step that touches the caches, which are empty at first, every
\* entry is the value the rule yields for its key alone, whichever request
\* wrote it.
C24_CachesAppendOnlyAndPure ==
    [][/\ \A key \in DOMAIN hourCache :
              key \in DOMAIN hourCache' /\ hourCache'[key] = hourCache[key]
       /\ \A key \in DOMAIN dstCache :
              key \in DOMAIN dstCache' /\ dstCache'[key] = dstCache[key]
       /\ UNCHANGED cacheVars \/ CachesPure(hourCache', dstCache')]_vars

\* Two requests for different stations were in flight together and both
\* have aggregated: the caches hold the entries of both, the timestamp and
\* the date the two stations share among them.
C24_Witness ==
    /\ requests[1].pc = "done" /\ requests[2].pc = "done"
    /\ requests[1].response = Returned(200, requests[1].response[1].body)
    /\ requests[2].response = Returned(200, requests[2].response[1].body)
    /\ requests[1].event.stationId # requests[2].event.stationId
    /\ Len(requests[1].items) + Len(requests[2].items) = 3
    /\ Cardinality(DOMAIN hourCache) = 2
    /\ Cardinality(DOMAIN dstCache) = 1

====
